---- MODULE Spec2Model ----
(***************************************************************************)
(* Hub-and-spoke lifecycle of mpi-sppy: WheelSpinner.run and _make_comms   *)
(* (mpisppy/spin_the_wheel.py).  One process per global rank; every one of *)
(* them owns a WheelSpinner instance and calls run() on it.  The methods   *)
(* of the communicator object (make_windows, main, send_terminate, ...)    *)
(* live in classes outside this file; they are modelled from the design    *)
(* document and marked so in the model map.                                *)
(***************************************************************************)
EXTENDS Integers, Sequences, FiniteSets, TLC

\* ------------------------------------------------------------------ bounds
MaxProcs == 4      \* largest world size explored
MaxSpokes == 2     \* longest list_of_spoke_dict explored

VARIABLES
    nproc,        \* fullcomm.Get_size()
    hub_dict,     \* per process: the keys of hub_dict
    spoke_dicts,  \* per process: the keys of each dict of list_of_spoke_dict
    pos,          \* per process: index of the step of run() it is at (0: not in run)
    sub,          \* per process: "call" (about to call the step), "wait" (inside a
                  \* collective), "top"/"step" (inside a spoke's main loop), "loop"
                  \* (inside the hub's main loop), "read" (inside hub_finalize)
    ran,          \* per process: WheelSpinner._ran
    err,          \* per process: the exception the last run() call raised, or "none"
    fullColl,     \* per process: collectives entered on fullcomm
    strataColl,   \* per process: collectives entered on strata_comm
    cylColl,      \* per process: collectives entered on cylinder_comm
    strataGroup, strataRank,   \* per process: strata_comm (members, own rank)
    cylGroup, cylRank,         \* per process: cylinder_comm (members, own rank)
    win,          \* per process: state of its window channel
    flag,         \* per process: the termination flag held in its window
    seen,         \* per process: the last flag value a spoke read at its loop top
    toRead,       \* per hub process: spoke windows hub_finalize has still to read
    log,          \* per process: the lifecycle calls made, in order
    result,       \* per process: what run() stored in BestInnerBound/BestOuterBound
    last_ib_idx,  \* per process: spcomm.last_ib_idx, <<>> (None) or <<strata rank>>
    lastq,        \* the most recent result query: <<process, query, outcome>>
    sense,        \* the optimization sense of the run, "min" or "max"
    BestInnerBound,  \* the hub's tracked best inner bound, <<>> (absent) or <<value>>
    BestOuterBound,  \* the hub's tracked best outer bound, <<>> (absent) or <<value>>
    updates,      \* the updates the bound tracker has received, in order:
                  \* <<spoke, inner bound, outer bound>>
    wmem,         \* per window (by owner): [gen, pay, bnd], the generation counter,
                  \* the vector payload and the bound fields it holds
    wpc,          \* per process: the writes of publish() it has made (0: not in publish)
    rpoll,        \* the hub's poll in progress: [pc, s, gen, pay, bnd] (pc 0: none)
    lastgen,      \* per window: the generation the hub consumed last
    pubs,         \* per window: the <<payload, bounds>> each publish wrote, by generation
    consumed,     \* what the hub's polls returned: <<spoke, generation, payload, bounds>>
    writes,       \* the writes made: <<process, window, "data" or "flag">>
    lastop,       \* the most recent channel call, when recorded:
                  \* <<process, call, channel state at the call, outcome>>
    spc,          \* where the SPOpt object of one process is: "create" (_create_solvers,
                  \* at the top of its loop), "attempt" and "sleep" (inside
                  \* set_instance_retry), "failed" (set_instance_retry raised), "idle"
                  \* (solvers created), "loop" (inside solve_loop)
    persistent,   \* sputils.is_persistent(s._solver_plugin)
    sidx,         \* the subproblem the loop of _create_solvers or solve_loop is at
    num_retry_attempts,  \* set_instance_retry's counter
    calls,        \* per subproblem: the outcome of each set_instance call, in order
    sleeps,       \* per subproblem: the time.sleep calls set_instance_retry made
    loops,        \* the solve_loop calls made
    args,         \* the arguments of the solve_loop call: [need_solution, gripe]
    scenario_feasible,   \* per subproblem: _mpisppy_data.scenario_feasible
    solution_available,  \* per subproblem: _mpisppy_data.solution_available
    sout,         \* the most recent solve_one call:
                  \* <<subproblem, need_solution, what happened, how it ended>>
    is_minimizing,  \* SPOpt.is_minimizing, the optimization sense of the subproblems
    bundling,     \* SPOpt.bundling: the subproblems are bundles of scenarios
    extensions,   \* an extension object is attached (self.extensions is not None)
    outer_bound,  \* per subproblem: _mpisppy_data.outer_bound, <<>> (unset) or <<v>>
    inner_bound,  \* per subproblem: _mpisppy_data.inner_bound, <<>> (unset) or <<v>>
    results,      \* the results object of the most recent solve: <<>> (None) or
                  \* <<Lower_bound, Upper_bound>>
    local_feasible,  \* per scenario of a bundle: the scenario_feasible of
                  \* local_scenarios[sname]; without bundles the scenarios are the
                  \* subproblems and this is <<>>
    hooks,        \* the extension hooks and solves of the most recent solve_loop call,
                  \* in order: <<hook>> or <<hook, subproblem>>
    node_list,    \* per local scenario: s._mpisppy_node_list as <<name, nlens[name]>>
    nonants,      \* per local scenario: the Vars of nonant_indices, in order, each
                  \* [value, fixed, stale]; a value is <<>> (None), <<v>> (v halves)
                  \* or NaN
    zero_prob,    \* per local scenario: the indices ci for which is_zero_prob holds
    integer,      \* the indices ci of the binary or integer nonant Vars
    surrogate_vardatas,  \* the indices ci of the surrogate nonant Vars
    nonant_cache,        \* per local scenario: <<>> (no attribute) or <<values>>
    fixedness_cache,     \* per local scenario: <<>> (no attribute) or <<flags>>
    original_nonants,    \* per local scenario: <<>> (no attribute) or <<values>>
    original_fixedness,  \* per local scenario: <<>> (no attribute) or <<flags>>
    initial_fixed,       \* _initial_fixed_varibles: the <<scenario, ci>> fixed when the
                         \* SPOpt object was constructed
    nout,         \* the most recent call on the nonants: [op, how, ...]
    nops,         \* the calls made on the nonants
    spcomm_dict   \* per process: the entry of communicator_list its opt and spcomm
                  \* objects were built from, <<"hub", 0>> or <<"spoke", i>> for the
                  \* i-th dict of list_of_spoke_dict; <<>> before they are built

\* the bound tracker of the hub
tvars == <<sense, BestInnerBound, BestOuterBound, updates>>

\* the window channel of the hub and its spokes
cvars == <<wmem, wpc, rpoll, lastgen, pubs, consumed, writes, lastop>>

\* the subproblem solvers of one process
\* what solve_one reads and leaves behind besides the feasibility flags
ovars == <<is_minimizing, bundling, extensions, outer_bound, inner_bound, results,
           local_feasible, hooks>>

\* the non-anticipative variables of the local scenarios and their caches
nvars == <<node_list, nonants, zero_prob, integer, surrogate_vardatas, nonant_cache,
           fixedness_cache, original_nonants, original_fixedness, initial_fixed,
           nout, nops>>

svars == <<spc, persistent, sidx, num_retry_attempts, calls, sleeps, loops, args,
           scenario_feasible, solution_available, sout, ovars, nvars>>

\* the state outside run() itself: the communicator's attribute read by the queries,
\* the record of the queries made, the bound tracker
xvars == <<last_ib_idx, lastq, tvars, cvars, svars, spcomm_dict>>

vars == <<xvars, nproc, hub_dict, spoke_dicts, pos, sub, ran, err, fullColl, strataColl,
          cylColl, strataGroup, strataRank, cylGroup, cylRank, win, flag, seen,
          toRead, log, result>>

Procs == 0 .. (nproc - 1)

\* ---------------------------------------------------------------- helpers
\* list_of_spoke_dict is the same list on every process until run() edits it
n_spokes == Len(spoke_dicts[0])

\* n_spcomms = len([hub_dict] + list_of_spoke_dict)
n_spcomms == 1 + n_spokes

\* the renaming table of run()
KeyConversion(k) ==
    CASE k = "hub_class" -> "spcomm_class"
      [] k = "hub_kwargs" -> "spcomm_kwargs"
      [] k = "spoke_class" -> "spcomm_class"
      [] k = "spoke_kwargs" -> "spcomm_kwargs"
      [] OTHER -> k

\* for oldk, newk in _key_conversion.items(): if oldk in d: d[newk] = d.pop(oldk)
ConvertKeys(d) == { KeyConversion(k) : k \in d }

\* the hub checks of run() without the test for 'opt_class'
HubKeysLax(d) == "hub_class" \in d

\* the hub dictionary passes the key checks of run()
HubKeysOk(d) == "hub_class" \in d /\ "opt_class" \in d

\* a spoke dictionary passes the key checks of run()
SpokeKeysOk(d) == "spoke_class" \in d /\ "opt_class" \in d

\* index of the first spoke dictionary that fails the checks, 0 when none does
RECURSIVE FirstBadSpoke(_, _)
FirstBadSpoke(ds, i) ==
    IF i > Len(ds) THEN 0
    ELSE IF ~SpokeKeysOk(ds[i]) THEN i
    ELSE FirstBadSpoke(ds, i + 1)

\* the spoke list after the loop over it: the dictionaries before the failing one
\* (all of them when none fails) have received their default kwargs
SpokeDefaults(ds) ==
    LET b == FirstBadSpoke(ds, 1) IN
    [i \in 1 .. Len(ds) |->
        IF b = 0 \/ i < b THEN ds[i] \cup {"spoke_kwargs", "opt_kwargs"} ELSE ds[i]]

\* the hub dictionary after its checks passed
HubDefaults(d) == d \cup {"hub_kwargs", "opt_kwargs"}

\* _make_comms without its process-count check
CountCheckOff(n, k) == TRUE

\* n_proc % n_spcomms == 0, the condition under which _make_comms does not raise
CountCheck(n, k) == n % k = 0

\* if n_proc % n_spcomms != 0: raise RuntimeError
CountOk == CountCheck(nproc, n_spcomms)

\* colour of the first Split of _make_comms, which yields strata_comm
StrataColorSwapped(g) == g % n_spcomms
StrataColor(g) == g \div n_spcomms

\* colour of the second Split of _make_comms, which yields cylinder_comm
CylinderColorSwapped(g) == g \div n_spcomms
CylinderColor(g) == g % n_spcomms

\* key of both Splits
SplitKey(g) == g

\* the colours the processes pass to the two Splits
StrataColors == [q \in Procs |-> StrataColor(q)]
CylinderColors == [q \in Procs |-> CylinderColor(q)]

\* MPI Comm.Split: the members are the callers of the same colour
SplitGroup(p, colors) == { q \in Procs : colors[q] = colors[p] }

\* MPI Comm.Split: ranks follow the key, ties broken by the rank in the parent
SplitRank(p, colors) ==
    Cardinality({ q \in SplitGroup(p, colors) :
                    \/ SplitKey(q) < SplitKey(p)
                    \/ (SplitKey(q) = SplitKey(p) /\ q < p) })

\* if self._ran: raise RuntimeError("WheelSpinner can only be run once")
RunGuardOff(p) == FALSE
RunGuard(p) == ran[p]

\* if strata_rank == 0  (the tests around setup_hub and send_terminate)
IsHubAlways(p) == TRUE
IsHub(p) == strataRank[p] = 0

\* run() that marks the instance as run ahead of the closing world barrier
RunStepsStoreEarly(hub) ==
    IF hub
    THEN <<"split_strata", "split_cylinder", "build", "make_windows", "setup_hub", "main",
           "send_terminate", "finalize", "cylinder_barrier", "world_barrier",
           "hub_finalize", "free_windows", "store", "world_barrier">>
    ELSE <<"split_strata", "split_cylinder", "build", "make_windows", "main",
           "finalize", "cylinder_barrier", "world_barrier",
           "hub_finalize", "free_windows", "store", "world_barrier">>

\* run() with free_windows called ahead of hub_finalize
RunStepsFreeFirst(hub) ==
    IF hub
    THEN <<"split_strata", "split_cylinder", "build", "make_windows", "setup_hub", "main",
           "send_terminate", "finalize", "cylinder_barrier", "world_barrier",
           "free_windows", "hub_finalize", "world_barrier", "store">>
    ELSE <<"split_strata", "split_cylinder", "build", "make_windows", "main",
           "finalize", "cylinder_barrier", "world_barrier",
           "free_windows", "hub_finalize", "world_barrier", "store">>

\* run() without the world barrier that follows finalize
RunStepsNoBarrier(hub) ==
    IF hub
    THEN <<"split_strata", "split_cylinder", "build", "make_windows", "setup_hub", "main",
           "send_terminate", "finalize", "cylinder_barrier",
           "hub_finalize", "free_windows", "world_barrier", "store">>
    ELSE <<"split_strata", "split_cylinder", "build", "make_windows", "main",
           "finalize", "cylinder_barrier",
           "hub_finalize", "free_windows", "world_barrier", "store">>

\* run() with the cylinder barrier entered ahead of finalize
RunStepsBarrierFirst(hub) ==
    IF hub
    THEN <<"split_strata", "split_cylinder", "build", "make_windows", "setup_hub", "main",
           "send_terminate", "cylinder_barrier", "finalize", "world_barrier",
           "hub_finalize", "free_windows", "world_barrier", "store">>
    ELSE <<"split_strata", "split_cylinder", "build", "make_windows", "main",
           "cylinder_barrier", "finalize", "world_barrier",
           "hub_finalize", "free_windows", "world_barrier", "store">>

\* the body of run() from _make_comms on, as the sequence of its calls; the two
\* hub-only calls are skipped by the other roles
RunSteps(hub) ==
    IF hub
    THEN <<"split_strata", "split_cylinder", "build", "make_windows", "setup_hub", "main",
           "send_terminate", "finalize", "cylinder_barrier", "world_barrier",
           "hub_finalize", "free_windows", "world_barrier", "store">>
    ELSE <<"split_strata", "split_cylinder", "build", "make_windows", "main",
           "finalize", "cylinder_barrier", "world_barrier",
           "hub_finalize", "free_windows", "world_barrier", "store">>

\* the call process p is at
Step(p) ==
    IF pos[p] = 0 THEN "none" ELSE RunSteps(IsHub(p))[pos[p]]

\* the spokes whose windows hub process p reads and flags: the other members of its
\* strata_comm
SpokesOf(p) == strataGroup[p] \ {p}

\* signal_terminate: the flag becomes true in the window of every spoke in S
SignalTerminate(f, S) == [q \in DOMAIN f |-> IF q \in S THEN TRUE ELSE f[q]]

\* a collective that returns without waiting for the other members
ArrivedAlways(count, group, p) == TRUE

\* a collective on a communicator returns once every member has entered it
Arrived(count, group, p) == \A q \in group : count[q] >= count[p]

\* ------------------------------------------------------------------- Init
\* no poll is in progress
NoPoll == [pc |-> 0, s |-> 0, gen |-> 0, pay |-> 0, bnd |-> <<>>]

\* no window channel exists
NoChannel ==
    /\ wmem = <<>> /\ wpc = <<>> /\ rpoll = NoPoll /\ lastgen = <<>>
    /\ pubs = <<>> /\ consumed = <<>> /\ writes = {} /\ lastop = <<>>

\* no SPOpt object is followed
NoSolvers ==
    /\ spc = "none" /\ persistent = FALSE /\ sidx = 0 /\ num_retry_attempts = 0
    /\ calls = <<>> /\ sleeps = <<>> /\ loops = 0
    /\ args = [need_solution |-> TRUE, gripe |-> FALSE]
    /\ scenario_feasible = <<>> /\ solution_available = <<>> /\ sout = <<>>
    /\ is_minimizing = TRUE /\ bundling = FALSE /\ extensions = FALSE
    /\ outer_bound = <<>> /\ inner_bound = <<>> /\ results = <<>>
    /\ local_feasible = <<>> /\ hooks = <<>>
    /\ node_list = <<>> /\ nonants = <<>> /\ zero_prob = <<>>
    /\ integer = {} /\ surrogate_vardatas = {}
    /\ nonant_cache = <<>> /\ fixedness_cache = <<>>
    /\ original_nonants = <<>> /\ original_fixedness = <<>>
    /\ initial_fixed = {} /\ nout = <<>> /\ nops = 0

KeySets == SUBSET {"hub_class", "opt_class"}
SpokeKeySets == SUBSET {"spoke_class", "opt_class"}
SpokeLists == UNION { [1 .. n -> SpokeKeySets] : n \in 0 .. MaxSpokes }

Init ==
    /\ nproc \in 1 .. MaxProcs
    /\ \E hd \in KeySets : hub_dict = [p \in Procs |-> hd]
    /\ \E sl \in SpokeLists : spoke_dicts = [p \in Procs |-> sl]
    /\ pos = [p \in Procs |-> 0]
    /\ sub = [p \in Procs |-> "call"]
    /\ ran = [p \in Procs |-> FALSE]
    /\ err = [p \in Procs |-> "none"]
    /\ fullColl = [p \in Procs |-> 0]
    /\ strataColl = [p \in Procs |-> 0]
    /\ cylColl = [p \in Procs |-> 0]
    /\ strataGroup = [p \in Procs |-> {}]
    /\ strataRank = [p \in Procs |-> -1]
    /\ cylGroup = [p \in Procs |-> {}]
    /\ cylRank = [p \in Procs |-> -1]
    /\ win = [p \in Procs |-> "none"]
    /\ flag = [p \in Procs |-> FALSE]
    /\ seen = [p \in Procs |-> FALSE]
    /\ toRead = [p \in Procs |-> {}]
    /\ log = [p \in Procs |-> <<>>]
    /\ result = [p \in Procs |-> "unset"]
    /\ spcomm_dict = [p \in Procs |-> <<>>]
    /\ last_ib_idx = [p \in Procs |-> <<>>]
    /\ lastq = <<>>
    /\ sense = "min"
    /\ BestInnerBound = <<>>
    /\ BestOuterBound = <<>>
    /\ updates = <<>>
    /\ NoChannel
    /\ NoSolvers

\* ---------------------------------------------------------------- actions
\* an exception leaves run(): the process is back in the caller
Raise(p, e) ==
    /\ pos' = [pos EXCEPT ![p] = 0]
    /\ sub' = [sub EXCEPT ![p] = "call"]
    /\ err' = [err EXCEPT ![p] = e]

\* the step after the current one is about to be called
Advance(p) ==
    /\ pos' = [pos EXCEPT ![p] = @ + 1]
    /\ sub' = [sub EXCEPT ![p] = "call"]

Logged(p, s) == log' = [log EXCEPT ![p] = Append(@, s)]

\* run() / spin() is called: the guard, the key checks, the renaming and the head of
\* _make_comms, up to the first collective (the Split that yields strata_comm).
\* run() is called on an instance that was never run, or again after a call returned
\* or was rejected by the guard; any other exception is fatal for the run, and the
\* caller does not try again
RunCall(p) ==
    /\ pos[p] = 0 /\ sub[p] = "call"
    /\ err[p] \in {"none", "once"}
    /\ \/ /\ RunGuard(p)
          /\ Raise(p, "once")
          /\ UNCHANGED <<hub_dict, spoke_dicts, fullColl, log>>
       \/ /\ ~RunGuard(p)
          /\ ~HubKeysOk(hub_dict[p])
          /\ Raise(p, "keys")
          /\ UNCHANGED <<hub_dict, spoke_dicts, fullColl, log>>
       \/ /\ ~RunGuard(p)
          /\ HubKeysOk(hub_dict[p])
          /\ FirstBadSpoke(spoke_dicts[p], 1) # 0
          /\ hub_dict' = [hub_dict EXCEPT ![p] = HubDefaults(@)]
          /\ spoke_dicts' = [spoke_dicts EXCEPT ![p] = SpokeDefaults(@)]
          /\ Raise(p, "keys")
          /\ UNCHANGED <<fullColl, log>>
       \/ /\ ~RunGuard(p)
          /\ HubKeysOk(hub_dict[p])
          /\ FirstBadSpoke(spoke_dicts[p], 1) = 0
          /\ hub_dict' = [hub_dict EXCEPT ![p] = ConvertKeys(HubDefaults(@))]
          /\ spoke_dicts' = [spoke_dicts EXCEPT ![p] =
                 [i \in 1 .. Len(@) |-> ConvertKeys(SpokeDefaults(@)[i])]]
          /\ IF CountOk
             THEN /\ pos' = [pos EXCEPT ![p] = 1]
                  /\ sub' = [sub EXCEPT ![p] = "wait"]
                  /\ err' = [err EXCEPT ![p] = "none"]
                  /\ fullColl' = [fullColl EXCEPT ![p] = @ + 1]
                  /\ Logged(p, "split_strata")
             ELSE /\ Raise(p, "count")
                  /\ UNCHANGED <<fullColl, log>>
    /\ UNCHANGED <<xvars, nproc, ran, strataColl, cylColl, strataGroup, strataRank,
                   cylGroup, cylRank, win, flag, seen, toRead, result>>

\* the first Split returns strata_comm; the second Split is entered
SplitStrataReturn(p) ==
    /\ sub[p] = "wait" /\ Step(p) = "split_strata"
    /\ Arrived(fullColl, Procs, p)
    /\ strataGroup' = [strataGroup EXCEPT ![p] = SplitGroup(p, StrataColors)]
    /\ strataRank' = [strataRank EXCEPT ![p] = SplitRank(p, StrataColors)]
    /\ pos' = [pos EXCEPT ![p] = @ + 1]
    /\ fullColl' = [fullColl EXCEPT ![p] = @ + 1]
    /\ Logged(p, "split_cylinder")
    /\ UNCHANGED <<xvars, nproc, hub_dict, spoke_dicts, sub, ran, err, strataColl, cylColl,
                   cylGroup, cylRank, win, flag, seen, toRead, result>>

\* the second Split returns cylinder_comm; _make_comms returns
SplitCylinderReturn(p) ==
    /\ sub[p] = "wait" /\ Step(p) = "split_cylinder"
    /\ Arrived(fullColl, Procs, p)
    /\ cylGroup' = [cylGroup EXCEPT ![p] = SplitGroup(p, CylinderColors)]
    /\ cylRank' = [cylRank EXCEPT ![p] = SplitRank(p, CylinderColors)]
    /\ Advance(p)
    /\ UNCHANGED <<xvars, nproc, hub_dict, spoke_dicts, ran, err, fullColl, strataColl,
                   cylColl, strataGroup, strataRank, win, flag, seen, toRead,
                   log, result>>

\* a list with the hub's dict at its end
HubLast(ds) ==
    [i \in 1 .. Len(ds) |-> <<"spoke", i>>] \o << <<"hub", 0>> >>

\* communicator_list = [hub_dict] + list_of_spoke_dict, each dict named by where it
\* came from
communicator_list(ds) ==
    << <<"hub", 0>> >> \o [i \in 1 .. Len(ds) |-> <<"spoke", i>>]

\* spcomm_dict = communicator_list[strata_rank];
\* opt = opt_class(**opt_kwargs); spcomm = sp_class(opt, fullcomm, ...)
Build(p) ==
    /\ sub[p] = "call" /\ Step(p) = "build"
    /\ spcomm_dict' = [spcomm_dict EXCEPT
                          ![p] = communicator_list(spoke_dicts[p])[strataRank[p] + 1]]
    /\ Logged(p, "build")
    /\ Advance(p)
    /\ UNCHANGED <<last_ib_idx, lastq, tvars, cvars, svars, nproc, hub_dict, spoke_dicts, ran, err, fullColl, strataColl,
                   cylColl, strataGroup, strataRank, cylGroup, cylRank, win, flag,
                   seen, toRead, result>>

\* spcomm.make_windows(): the window is allocated with its flag false; the call is
\* collective over the strata group
MakeWindowsCall(p) ==
    /\ sub[p] = "call" /\ Step(p) = "make_windows"
    /\ win' = [win EXCEPT ![p] = "open"]
    /\ flag' = [flag EXCEPT ![p] = FALSE]
    /\ strataColl' = [strataColl EXCEPT ![p] = @ + 1]
    /\ sub' = [sub EXCEPT ![p] = "wait"]
    /\ Logged(p, "make_windows")
    /\ UNCHANGED <<xvars, nproc, hub_dict, spoke_dicts, pos, ran, err, fullColl, cylColl,
                   strataGroup, strataRank, cylGroup, cylRank, seen, toRead,
                   result>>

MakeWindowsReturn(p) ==
    /\ sub[p] = "wait" /\ Step(p) = "make_windows"
    /\ Arrived(strataColl, strataGroup[p], p)
    /\ Advance(p)
    /\ UNCHANGED <<xvars, nproc, hub_dict, spoke_dicts, ran, err, fullColl, strataColl,
                   cylColl, strataGroup, strataRank, cylGroup, cylRank, win, flag,
                   seen, toRead, log, result>>

\* spcomm.setup_hub()
SetupHub(p) ==
    /\ sub[p] = "call" /\ Step(p) = "setup_hub"
    /\ Logged(p, "setup_hub")
    /\ Advance(p)
    /\ UNCHANGED <<xvars, nproc, hub_dict, spoke_dicts, ran, err, fullColl, strataColl,
                   cylColl, strataGroup, strataRank, cylGroup, cylRank, win, flag,
                   seen, toRead, result>>

\* the object built for process p is the hub: spcomm_dict = communicator_list[strata_rank],
\* with the hub first in that list
HubObject(p) == strataRank[p] = 0

\* spcomm.main() is entered
MainEnter(p) ==
    /\ sub[p] = "call" /\ Step(p) = "main"
    /\ sub' = [sub EXCEPT ![p] = IF HubObject(p) THEN "loop" ELSE "top"]
    /\ Logged(p, "main")
    /\ UNCHANGED <<xvars, nproc, hub_dict, spoke_dicts, pos, ran, err, fullColl, strataColl,
                   cylColl, strataGroup, strataRank, cylGroup, cylRank, win, flag,
                   seen, toRead, result>>

\* the hub's stopping condition holds (gap, converger, or the iteration cap): main()
\* returns
HubMainReturn(p) ==
    /\ sub[p] = "loop" /\ Step(p) = "main"
    /\ Advance(p)
    /\ UNCHANGED <<xvars, nproc, hub_dict, spoke_dicts, ran, err, fullColl, strataColl,
                   cylColl, strataGroup, strataRank, cylGroup, cylRank, win, flag,
                   seen, toRead, log, result>>

\* top of the spoke loop: a non-blocking read of the termination flag; main() returns
\* when it is set
SpokeCheck(p) ==
    /\ sub[p] = "top" /\ Step(p) = "main"
    /\ seen' = [seen EXCEPT ![p] = flag[p]]
    /\ IF flag[p]
       THEN Advance(p)
       ELSE /\ sub' = [sub EXCEPT ![p] = "step"]
            /\ UNCHANGED pos
    /\ UNCHANGED <<xvars, nproc, hub_dict, spoke_dicts, ran, err, fullColl, strataColl,
                   cylColl, strataGroup, strataRank, cylGroup, cylRank, win, flag,
                   toRead, log, result>>

\* the spoke's algorithmic step and the publication of its result
SpokeStep(p) ==
    /\ sub[p] = "step" /\ Step(p) = "main"
    /\ sub' = [sub EXCEPT ![p] = "top"]
    /\ UNCHANGED <<xvars, nproc, hub_dict, spoke_dicts, pos, ran, err, fullColl, strataColl,
                   cylColl, strataGroup, strataRank, cylGroup, cylRank, win, flag,
                   seen, toRead, log, result>>

\* an exception inside main() is not caught by run()
MainRaise(p) ==
    /\ sub[p] \in {"loop", "step"} /\ Step(p) = "main"
    /\ Raise(p, "main")
    /\ UNCHANGED <<xvars, nproc, hub_dict, spoke_dicts, ran, fullColl, strataColl, cylColl,
                   strataGroup, strataRank, cylGroup, cylRank, win, flag, seen,
                   toRead, log, result>>

\* spcomm.send_terminate()
SendTerminate(p) ==
    /\ sub[p] = "call" /\ Step(p) = "send_terminate"
    /\ flag' = SignalTerminate(flag, SpokesOf(p))
    /\ Logged(p, "send_terminate")
    /\ Advance(p)
    /\ UNCHANGED <<xvars, nproc, hub_dict, spoke_dicts, ran, err, fullColl, strataColl,
                   cylColl, strataGroup, strataRank, cylGroup, cylRank, win, seen,
                   toRead, result>>

\* spcomm.finalize()
Finalize(p) ==
    /\ sub[p] = "call" /\ Step(p) = "finalize"
    /\ Logged(p, "finalize")
    /\ Advance(p)
    /\ UNCHANGED <<xvars, nproc, hub_dict, spoke_dicts, ran, err, fullColl, strataColl,
                   cylColl, strataGroup, strataRank, cylGroup, cylRank, win, flag,
                   seen, toRead, result>>

\* an exception inside spcomm.finalize() is not caught by run() either
FinalizeRaise(p) ==
    /\ sub[p] = "call" /\ Step(p) = "finalize"
    /\ Raise(p, "finalize")
    /\ UNCHANGED <<xvars, nproc, hub_dict, spoke_dicts, ran, fullColl, strataColl, cylColl,
                   strataGroup, strataRank, cylGroup, cylRank, win, flag, seen,
                   toRead, log, result>>

\* cylinder_comm.Barrier() is entered
CylinderBarrierEnter(p) ==
    /\ sub[p] = "call" /\ Step(p) = "cylinder_barrier"
    /\ cylColl' = [cylColl EXCEPT ![p] = @ + 1]
    /\ sub' = [sub EXCEPT ![p] = "wait"]
    /\ Logged(p, "cylinder_barrier")
    /\ UNCHANGED <<xvars, nproc, hub_dict, spoke_dicts, pos, ran, err, fullColl, strataColl,
                   strataGroup, strataRank, cylGroup, cylRank, win, flag, seen,
                   toRead, result>>

CylinderBarrierReturn(p) ==
    /\ sub[p] = "wait" /\ Step(p) = "cylinder_barrier"
    /\ Arrived(cylColl, cylGroup[p], p)
    /\ Advance(p)
    /\ UNCHANGED <<xvars, nproc, hub_dict, spoke_dicts, ran, err, fullColl, strataColl,
                   cylColl, strataGroup, strataRank, cylGroup, cylRank, win, flag,
                   seen, toRead, log, result>>

\* fullcomm.Barrier() is entered
WorldBarrierEnter(p) ==
    /\ sub[p] = "call" /\ Step(p) = "world_barrier"
    /\ fullColl' = [fullColl EXCEPT ![p] = @ + 1]
    /\ sub' = [sub EXCEPT ![p] = "wait"]
    /\ Logged(p, "world_barrier")
    /\ UNCHANGED <<xvars, nproc, hub_dict, spoke_dicts, pos, ran, err, strataColl, cylColl,
                   strataGroup, strataRank, cylGroup, cylRank, win, flag, seen,
                   toRead, result>>

WorldBarrierReturn(p) ==
    /\ sub[p] = "wait" /\ Step(p) = "world_barrier"
    /\ Arrived(fullColl, Procs, p)
    /\ Advance(p)
    /\ UNCHANGED <<xvars, nproc, hub_dict, spoke_dicts, ran, err, fullColl, strataColl,
                   cylColl, strataGroup, strataRank, cylGroup, cylRank, win, flag,
                   seen, toRead, log, result>>

\* spcomm.hub_finalize(): the hub harvests the last values of every spoke's window;
\* on the other roles the hook does nothing
HubFinalizeCall(p) ==
    /\ sub[p] = "call" /\ Step(p) = "hub_finalize"
    /\ Logged(p, "hub_finalize")
    /\ IF HubObject(p)
       THEN /\ toRead' = [toRead EXCEPT ![p] = SpokesOf(p)]
            /\ sub' = [sub EXCEPT ![p] = "read"]
            /\ UNCHANGED pos
       ELSE /\ Advance(p)
            /\ UNCHANGED toRead
    /\ UNCHANGED <<xvars, nproc, hub_dict, spoke_dicts, ran, err, fullColl, strataColl,
                   cylColl, strataGroup, strataRank, cylGroup, cylRank, win, flag,
                   seen, result>>

\* hub_finalize polls the window of spoke s; a poll of a released window fails fatally
HubFinalizeRead(p, s) ==
    /\ sub[p] = "read" /\ Step(p) = "hub_finalize"
    /\ s \in toRead[p]
    /\ IF win[s] = "open"
       THEN /\ toRead' = [toRead EXCEPT ![p] = @ \ {s}]
            /\ UNCHANGED <<pos, sub, err>>
       ELSE /\ Raise(p, "use_after_free")
            /\ UNCHANGED toRead
    /\ UNCHANGED <<xvars, nproc, hub_dict, spoke_dicts, ran, fullColl, strataColl, cylColl,
                   strataGroup, strataRank, cylGroup, cylRank, win, flag, seen,
                   log, result>>

HubFinalizeReturn(p) ==
    /\ sub[p] = "read" /\ Step(p) = "hub_finalize"
    /\ toRead[p] = {}
    /\ Advance(p)
    /\ UNCHANGED <<xvars, nproc, hub_dict, spoke_dicts, ran, err, fullColl, strataColl,
                   cylColl, strataGroup, strataRank, cylGroup, cylRank, win, flag,
                   seen, toRead, log, result>>

\* spcomm.free_windows(): the process releases its window
FreeWindows(p) ==
    /\ sub[p] = "call" /\ Step(p) = "free_windows"
    /\ win' = [win EXCEPT ![p] = "freed"]
    /\ Logged(p, "free_windows")
    /\ Advance(p)
    /\ UNCHANGED <<xvars, nproc, hub_dict, spoke_dicts, ran, err, fullColl, strataColl,
                   cylColl, strataGroup, strataRank, cylGroup, cylRank, flag, seen,
                   toRead, result>>

\* a tail of run() that stores the communicator's bounds on every process
StoredBoundsAll(p) == "bounds"

\* what the tail of run() assigns to BestInnerBound and BestOuterBound: the
\* communicator's tracked values on the hub's processes, None on the others
StoredBounds(p) == IF strataRank[p] = 0 THEN "bounds" ELSE "None"

\* the tail of run(): the results are stored, _ran is set, run() returns
Store(p) ==
    /\ sub[p] = "call" /\ Step(p) = "store"
    /\ result' = [result EXCEPT ![p] = StoredBounds(p)]
    /\ ran' = [ran EXCEPT ![p] = TRUE]
    /\ pos' = [pos EXCEPT ![p] = 0]
    /\ Logged(p, "store")
    /\ UNCHANGED <<xvars, nproc, hub_dict, spoke_dicts, sub, err, fullColl, strataColl,
                   cylColl, strataGroup, strataRank, cylGroup, cylRank, win, flag,
                   seen, toRead>>

ProcIds == 0 .. (MaxProcs - 1)

\* the steps of run() past its entry, without the exception a main() may raise
Progress(p) ==
    \/ SplitStrataReturn(p)
    \/ SplitCylinderReturn(p)
    \/ Build(p)
    \/ MakeWindowsCall(p)
    \/ MakeWindowsReturn(p)
    \/ SetupHub(p)
    \/ MainEnter(p)
    \/ HubMainReturn(p)
    \/ SpokeCheck(p)
    \/ SpokeStep(p)
    \/ SendTerminate(p)
    \/ Finalize(p)
    \/ CylinderBarrierEnter(p)
    \/ CylinderBarrierReturn(p)
    \/ WorldBarrierEnter(p)
    \/ WorldBarrierReturn(p)
    \/ HubFinalizeCall(p)
    \/ \E s \in toRead[p] : HubFinalizeRead(p, s)
    \/ HubFinalizeReturn(p)
    \/ FreeWindows(p)
    \/ Store(p)

Next ==
    \E p \in ProcIds :
        \/ (p \in Procs /\ RunCall(p))
        \/ (p \in Procs /\ SplitStrataReturn(p))
        \/ (p \in Procs /\ SplitCylinderReturn(p))
        \/ (p \in Procs /\ Build(p))
        \/ (p \in Procs /\ MakeWindowsCall(p))
        \/ (p \in Procs /\ MakeWindowsReturn(p))
        \/ (p \in Procs /\ SetupHub(p))
        \/ (p \in Procs /\ MainEnter(p))
        \/ (p \in Procs /\ HubMainReturn(p))
        \/ (p \in Procs /\ SpokeCheck(p))
        \/ (p \in Procs /\ SpokeStep(p))
        \/ (p \in Procs /\ MainRaise(p))
        \/ (p \in Procs /\ SendTerminate(p))
        \/ (p \in Procs /\ Finalize(p))
        \/ (p \in Procs /\ FinalizeRaise(p))
        \/ (p \in Procs /\ CylinderBarrierEnter(p))
        \/ (p \in Procs /\ CylinderBarrierReturn(p))
        \/ (p \in Procs /\ WorldBarrierEnter(p))
        \/ (p \in Procs /\ WorldBarrierReturn(p))
        \/ (p \in Procs /\ HubFinalizeCall(p))
        \/ (p \in Procs /\ \E s \in toRead[p] : HubFinalizeRead(p, s))
        \/ (p \in Procs /\ HubFinalizeReturn(p))
        \/ (p \in Procs /\ FreeWindows(p))
        \/ (p \in Procs /\ Store(p))

Spec == Init /\ [][Next]_vars

\* every process calls run(), every step of run() that can be taken is taken, and the
\* only exception left to chance is the one a main() may raise
FairSpec ==
    /\ Spec
    /\ \A p \in ProcIds : WF_vars(p \in Procs /\ ~ran[p] /\ RunCall(p))
    /\ \A p \in ProcIds : WF_vars(p \in Procs /\ Progress(p))

\* ---------------------------------------------------------- result queries
QMaxProcs == 2     \* largest world size explored together with the queries
MaxBcasts == 1     \* most solution-writer queries explored per process

\* the collectives run() enters on fullcomm: the two Splits and the two Barriers
RunCollectives == 4

\* the query surface of WheelSpinner: four methods and the two bound attributes
QueryMethods ==
    {"on_hub", "write_first_stage_solution", "write_tree_solution", "local_nonant_cache"}
BoundAttributes == {"BestInnerBound", "BestOuterBound"}
Queries == QueryMethods \cup BoundAttributes
Writers == {"write_first_stage_solution", "write_tree_solution"}

\* a query surface without its guards
QueryFailsNever(p, q) == FALSE

\* the query raises: the methods test `if not self._ran`; the bound attributes do not
\* exist on the instance until the tail of run() has assigned them
QueryFails(p, q) ==
    IF q \in BoundAttributes THEN result[p] = "unset" ELSE ~ran[p]

\* what a query that needs no communication returns
QueryValue(p, q) ==
    IF q = "on_hub" THEN IF strataRank[p] = 0 THEN "True" ELSE "False"
    ELSE IF q \in BoundAttributes THEN result[p]
    ELSE "cache"

\* a query is made on the instance of process p, outside run()
QueryCall(p, q) ==
    /\ pos[p] = 0 /\ sub[p] = "call"
    /\ (q \in Writers /\ ~QueryFails(p, q)) => fullColl[p] < RunCollectives + MaxBcasts
    /\ IF QueryFails(p, q)
       THEN /\ lastq' = <<p, q, "error">>
            /\ UNCHANGED <<sub, fullColl>>
       ELSE IF q \in Writers
       THEN \* _determine_innerbound_winner: fullcomm.bcast(best_strata_rank, root=0)
            /\ fullColl' = [fullColl EXCEPT ![p] = @ + 1]
            /\ sub' = [sub EXCEPT ![p] = q]
            /\ lastq' = <<p, q, "bcast">>
       ELSE /\ lastq' = <<p, q, QueryValue(p, q)>>
            /\ UNCHANGED <<sub, fullColl>>
    /\ UNCHANGED <<spcomm_dict, svars, cvars, tvars, last_ib_idx, nproc, hub_dict, spoke_dicts, pos, ran, err, strataColl,
                   cylColl, strataGroup, strataRank, cylGroup, cylRank, win, flag,
                   seen, toRead, log, result>>

\* a broadcast in which a last_ib_idx of None is sent as the hub's strata rank
BestStrataRankNoneAsHub == IF last_ib_idx[0] = <<>> THEN 0 ELSE last_ib_idx[0][1]

\* what global rank 0 broadcasts: -1 when its last_ib_idx is None
BestStrataRank == IF last_ib_idx[0] = <<>> THEN -1 ELSE last_ib_idx[0][1]

\* the broadcast returns; the process writes when its strata_rank is the winner's
WriterReturn(p) ==
    /\ pos[p] = 0 /\ sub[p] \in Writers
    /\ Arrived(fullColl, Procs, p)
    /\ lastq' = <<p, sub[p], IF strataRank[p] = BestStrataRank THEN "written" ELSE "skipped">>
    /\ sub' = [sub EXCEPT ![p] = "call"]
    /\ UNCHANGED <<spcomm_dict, svars, cvars, tvars, last_ib_idx, nproc, hub_dict, spoke_dicts, pos, ran, err, fullColl,
                   strataColl, cylColl, strataGroup, strataRank, cylGroup, cylRank,
                   win, flag, seen, toRead, log, result>>

\* inside its main loop the hub takes a new best inner bound from spoke s
HubTrack(p, s) ==
    /\ sub[p] = "loop" /\ Step(p) = "main"
    /\ s \in SpokesOf(p)
    /\ last_ib_idx' = [last_ib_idx EXCEPT ![p] = <<strataRank[s]>>]
    /\ UNCHANGED <<spcomm_dict, svars, cvars, tvars, lastq, nproc, hub_dict, spoke_dicts, pos, sub, ran, err, fullColl,
                   strataColl, cylColl, strataGroup, strataRank, cylGroup, cylRank,
                   win, flag, seen, toRead, log, result>>

QueryInit == Init /\ nproc <= QMaxProcs

QueryNext ==
    \/ Next
    \/ \E p \in 0 .. (QMaxProcs - 1) :
           \/ (p \in Procs /\ \E q \in Queries : QueryCall(p, q))
           \/ (p \in Procs /\ WriterReturn(p))
           \/ (p \in Procs /\ \E s \in SpokesOf(p) : HubTrack(p, s))

\* run() and the queries, as a caller may interleave them on every process
QuerySpec == QueryInit /\ [][QueryNext]_vars

\* ------------------------------------------------------------ bound tracker
MaxUpdates == 3    \* most updates given to the bound tracker
TrackSpokes == 2   \* spokes reporting to the bound tracker

\* the inner and outer bound values reported
InnerValues == {8, 9}
OuterValues == {7, 8}

\* a bound field of a record: absent, or a value
InnerFields == {<<>>} \cup { <<v>> : v \in InnerValues }
OuterFields == {<<>>} \cup { <<v>> : v \in OuterValues }

\* an update policy under which a tie replaces the tracked best
BetterOrEqual(sn, a, b) == IF sn = "min" THEN a <= b ELSE a >= b

\* inner bound a is strictly better than b under the sense: smaller when minimizing,
\* larger when maximizing
Better(sn, a, b) == IF sn = "min" THEN a < b ELSE a > b

\* a tracker that takes every reported bound as the new best
ImprovesAlways(sn, new, old) == TRUE

\* a reported inner bound replaces the tracked one: absent bounds take no part, the
\* first bound is taken, a later one only when strictly better
Improves(sn, new, old) ==
    new # <<>> /\ (old = <<>> \/ Better(sn, new[1], old[1]))

\* the same for outer bounds, whose better direction is the opposite one
ImprovesOuter(sn, new, old) ==
    new # <<>> /\ (old = <<>> \/ Better(sn, old[1], new[1]))

\* update(spoke_id, bound_record) on a tracker t = [inner, idx, outer]
Update(sn, t, s, ib, ob) ==
    [inner |-> IF Improves(sn, ib, t.inner) THEN ib ELSE t.inner,
     idx   |-> IF Improves(sn, ib, t.inner) THEN <<s>> ELSE t.idx,
     outer |-> IF ImprovesOuter(sn, ob, t.outer) THEN ob ELSE t.outer]

EmptyTracker == [inner |-> <<>>, idx |-> <<>>, outer |-> <<>>]

\* the tracker after the updates of a sequence us, applied in order to t
RECURSIVE ApplyAll(_, _, _)
ApplyAll(sn, t, us) ==
    IF us = <<>> THEN t
    ELSE ApplyAll(sn, Update(sn, t, us[1][1], us[1][2], us[1][3]), Tail(us))

\* the tracker held by the hub (process 0)
Tracker ==
    [inner |-> BestInnerBound, idx |-> last_ib_idx[0], outer |-> BestOuterBound]

\* a gap taken as best_outer minus best_inner whatever the sense
GapOuterFirst(sn, t) ==
    IF t.inner = <<>> \/ t.outer = <<>> THEN <<>>
    ELSE <<t.outer[1] - t.inner[1]>>

\* gap() of a tracker t: best_inner minus best_outer, taken the other way round when
\* maximizing so that zero or less means proven optimality; while a bound is absent
\* there is no finite gap
Gap(sn, t) ==
    IF t.inner = <<>> \/ t.outer = <<>> THEN <<>>
    ELSE IF sn = "min" THEN <<t.inner[1] - t.outer[1]>>
    ELSE <<t.outer[1] - t.inner[1]>>

\* the hub gives the tracker the bounds ib, ob reported by spoke s
TrackerSet(s, ib, ob) ==
    LET t == Update(sense, Tracker, s, ib, ob) IN
    /\ BestInnerBound' = t.inner
    /\ BestOuterBound' = t.outer
    /\ last_ib_idx' = [last_ib_idx EXCEPT ![0] = t.idx]
    /\ updates' = Append(updates, <<s, ib, ob>>)

\* every variable of run() keeps its value
RunVars ==
    <<spcomm_dict, nproc, hub_dict, spoke_dicts, pos, sub, ran, err, fullColl, strataColl, cylColl,
      strataGroup, strataRank, cylGroup, cylRank, win, flag, seen, toRead, log, result>>

\* the state of run() on a world of r processes per role, the roles being a hub and k
\* spokes, when the communicator objects have been built and, if made, make_windows
\* has returned on every process
Built(k, r, made) ==
    LET W == 0 .. ((k + 1) * r - 1)
        all == {"spcomm_class", "spcomm_kwargs", "opt_class", "opt_kwargs"} IN
    /\ nproc = (k + 1) * r
    /\ hub_dict = [p \in W |-> all]
    /\ spoke_dicts = [p \in W |-> [i \in 1 .. k |-> all]]
    /\ pos = [p \in W |-> IF made THEN 5 ELSE 4]
    /\ sub = [p \in W |-> "call"]
    /\ ran = [p \in W |-> FALSE]
    /\ err = [p \in W |-> "none"]
    /\ fullColl = [p \in W |-> 2]
    /\ strataColl = [p \in W |-> IF made THEN 1 ELSE 0]
    /\ cylColl = [p \in W |-> 0]
    /\ strataGroup = [p \in W |-> { q \in W : q \div (k + 1) = p \div (k + 1) }]
    /\ strataRank = [p \in W |-> p % (k + 1)]
    /\ cylGroup = [p \in W |-> { q \in W : q % (k + 1) = p % (k + 1) }]
    /\ cylRank = [p \in W |-> p \div (k + 1)]
    /\ win = [p \in W |-> IF made THEN "open" ELSE "none"]
    /\ flag = [p \in W |-> FALSE]
    /\ seen = [p \in W |-> FALSE]
    /\ toRead = [p \in W |-> {}]
    /\ log = [p \in W |-> IF made
                             THEN <<"split_strata", "split_cylinder", "build", "make_windows">>
                             ELSE <<"split_strata", "split_cylinder", "build">>]
    /\ result = [p \in W |-> "unset"]
    /\ spcomm_dict = [p \in W |-> IF p % (k + 1) = 0 THEN <<"hub", 0>>
                                  ELSE <<"spoke", p % (k + 1)>>]

TrackerInit ==
    /\ Built(TrackSpokes, 1, TRUE)
    /\ last_ib_idx = [p \in 0 .. TrackSpokes |-> <<>>]
    /\ lastq = <<>>
    /\ sense \in {"min", "max"}
    /\ BestInnerBound = <<>>
    /\ BestOuterBound = <<>>
    /\ updates = <<>>
    /\ NoChannel
    /\ NoSolvers

\* update(spoke_id, bound_record), for any spoke and any record
TrackerUpdate ==
    \E s \in 1 .. TrackSpokes : \E ib \in InnerFields : \E ob \in OuterFields :
        /\ Len(updates) < MaxUpdates
        /\ TrackerSet(s, ib, ob)
        /\ UNCHANGED <<lastq, sense, cvars, svars, RunVars>>

TrackerNext == TrackerUpdate

\* the bound tracker under any sequence of updates
TrackerSpec == TrackerInit /\ [][TrackerNext]_vars

\* ----------------------------------------------------------- window channel
ChanSpokes == 2    \* spokes of the strata group whose publishes and polls are explored
MaxGen == 2        \* most publishes explored per window
LifeSpokes == 2    \* spokes of the strata group whose channel lifetime is explored
LifeReplicas == 2  \* processes per role in that world
LifeGen == 1       \* most publishes explored per window over a channel lifetime

\* the bound fields <<inner, outer>> a publish may carry
ChanRecords == { << <<9>>, <<7>> >>, << <<8>>, <<>> >>, << <<8>>, <<8>> >> }

\* the bound fields of a window nothing was published to
NoBounds == << <<>>, <<>> >>

\* the window of a role is owned by the role's process of cylinder rank 0; in a world
\* laid out by Built that process's global rank is the role's strata rank
WindowOf(p) == strataRank[p]

\* the windows, by owner
Windows == { p \in Procs : cylRank[p] = 0 }

\* a channel on which every process of a role writes
IsWriterAlways(p) == TRUE

\* the designated writer of a role: its process of cylinder rank 0
IsWriter(p) == cylRank[p] = 0

\* a poll that takes whatever generation it finds
FreshAlways(g, last) == TRUE

\* the generation read differs from the one consumed by the previous poll
Fresh(g, last) == g # last

\* a publish that waits while the hub is reading the window
ProceedUnlessRead(p) == ~(rpoll.pc # 0 /\ rpoll.s = WindowOf(p))

\* publish takes no lock: its writes never wait
MayProceed(p) == TRUE

\* a channel without the check of its lifetime
ClosedNever(w) == FALSE

\* the window is outside its open lifetime: not yet made, or freed
Closed(w) == w # "open"

\* UseAfterFreeError: fatal for the calling process
ChanError(p) == err' = [err EXCEPT ![p] = "use_after_free"]

\* what the channel calls leave alone
ChanFrame ==
    UNCHANGED <<spcomm_dict, svars, lastq, sense, nproc, hub_dict, spoke_dicts, pos, sub, ran, fullColl,
                strataColl, cylColl, strataGroup, strataRank, cylGroup, cylRank, seen,
                toRead, log, result>>

TrackerFrame == UNCHANGED <<BestInnerBound, BestOuterBound, last_ib_idx, updates>>

\* make_windows(): the window is allocated, empty, with its flag false
ChanMakeWindows(p) ==
    /\ cylRank[p] = 0 /\ err[p] = "none" /\ win[p] = "none"
    /\ win' = [win EXCEPT ![p] = "open"]
    /\ flag' = [flag EXCEPT ![p] = FALSE]
    /\ wmem' = [wmem EXCEPT ![p] = [gen |-> 0, pay |-> 0, bnd |-> NoBounds]]
    /\ UNCHANGED <<err, wpc, rpoll, lastgen, pubs, consumed, writes>>
    /\ TrackerFrame /\ ChanFrame

\* publish(bound_record, vector) is called on a spoke process; the designated writer
\* writes the vector payload first.  The vector of the k-th publish is written as k
PublishCall(p) ==
    /\ strataRank[p] >= 1 /\ err[p] = "none" /\ wpc[p] = 0
    /\ IF ~IsWriter(p)
       THEN UNCHANGED <<err, wmem, wpc, writes>>
       ELSE IF Closed(win[WindowOf(p)])
       THEN /\ ChanError(p)
            /\ UNCHANGED <<wmem, wpc, writes>>
       ELSE /\ wmem[WindowOf(p)].gen < MaxGen
            /\ wmem' = [wmem EXCEPT ![WindowOf(p)].pay = wmem[WindowOf(p)].gen + 1]
            /\ wpc' = [wpc EXCEPT ![p] = 1]
            /\ writes' = writes \cup {<<p, WindowOf(p), "data">>}
            /\ UNCHANGED err
    /\ UNCHANGED <<win, flag, rpoll, lastgen, pubs, consumed>>
    /\ TrackerFrame /\ ChanFrame

\* publish, second write: the bound fields of the record
PublishBounds(p, rec) ==
    /\ wpc[p] = 1 /\ err[p] = "none"
    /\ MayProceed(p)
    /\ wmem' = [wmem EXCEPT ![WindowOf(p)].bnd = rec]
    /\ pubs' = [pubs EXCEPT ![WindowOf(p)] = Append(@, <<wmem[WindowOf(p)].pay, rec>>)]
    /\ wpc' = [wpc EXCEPT ![p] = 2]
    /\ UNCHANGED <<err, win, flag, rpoll, lastgen, consumed, writes>>
    /\ TrackerFrame /\ ChanFrame

\* publish, third write: the generation counter is incremented; publish returns
PublishCommit(p) ==
    /\ wpc[p] = 2 /\ err[p] = "none"
    /\ MayProceed(p)
    /\ wmem' = [wmem EXCEPT ![WindowOf(p)].gen = @ + 1]
    /\ wpc' = [wpc EXCEPT ![p] = 0]
    /\ UNCHANGED <<err, win, flag, rpoll, lastgen, pubs, consumed, writes>>
    /\ TrackerFrame /\ ChanFrame

\* poll(spoke_id) is called on the hub: the generation counter is read; an unchanged
\* generation is "no update"
PollCall(h, s) ==
    /\ strataRank[h] = 0 /\ cylRank[h] = 0 /\ err[h] = "none" /\ rpoll.pc = 0
    /\ s \in SpokesOf(h)
    /\ IF Closed(win[h]) \/ Closed(win[s])
       THEN /\ ChanError(h)
            /\ UNCHANGED rpoll
       ELSE IF ~Fresh(wmem[s].gen, lastgen[s])
       THEN UNCHANGED <<err, rpoll>>
       ELSE /\ rpoll' = [pc |-> 1, s |-> s, gen |-> wmem[s].gen, pay |-> 0, bnd |-> <<>>]
            /\ UNCHANGED err
    /\ UNCHANGED <<win, flag, wmem, wpc, lastgen, pubs, consumed, writes>>
    /\ TrackerFrame /\ ChanFrame

\* poll, second read: the vector payload
PollPayload(h) ==
    /\ strataRank[h] = 0 /\ cylRank[h] = 0 /\ err[h] = "none" /\ rpoll.pc = 1
    /\ IF Closed(win[rpoll.s])
       THEN ChanError(h) /\ rpoll' = NoPoll
       ELSE /\ rpoll' = [rpoll EXCEPT !.pc = 2, !.pay = wmem[rpoll.s].pay]
            /\ UNCHANGED err
    /\ UNCHANGED <<win, flag, wmem, wpc, lastgen, pubs, consumed, writes>>
    /\ TrackerFrame /\ ChanFrame

\* poll, third read: the bound fields
PollBounds(h) ==
    /\ strataRank[h] = 0 /\ cylRank[h] = 0 /\ err[h] = "none" /\ rpoll.pc = 2
    /\ IF Closed(win[rpoll.s])
       THEN ChanError(h) /\ rpoll' = NoPoll
       ELSE /\ rpoll' = [rpoll EXCEPT !.pc = 3, !.bnd = wmem[rpoll.s].bnd]
            /\ UNCHANGED err
    /\ UNCHANGED <<win, flag, wmem, wpc, lastgen, pubs, consumed, writes>>
    /\ TrackerFrame /\ ChanFrame

\* poll, last read: the generation counter is checked again.  When it still has the
\* value read first, the poll returns the record, which the hub consumes and gives to
\* its bound tracker; otherwise the poll returns "no update"
PollRecheck(h) ==
    /\ strataRank[h] = 0 /\ cylRank[h] = 0 /\ err[h] = "none" /\ rpoll.pc = 3
    /\ rpoll' = NoPoll
    /\ IF Closed(win[rpoll.s])
       THEN /\ ChanError(h)
            /\ UNCHANGED <<lastgen, consumed>> /\ TrackerFrame
       ELSE IF wmem[rpoll.s].gen = rpoll.gen
       THEN /\ lastgen' = [lastgen EXCEPT ![rpoll.s] = rpoll.gen]
            /\ consumed' = Append(consumed, <<rpoll.s, rpoll.gen, rpoll.pay, rpoll.bnd>>)
            /\ TrackerSet(rpoll.s, rpoll.bnd[1], rpoll.bnd[2])
            /\ UNCHANGED err
       ELSE /\ UNCHANGED <<err, lastgen, consumed>> /\ TrackerFrame
    /\ UNCHANGED <<win, flag, wmem, wpc, pubs, writes>>
    /\ ChanFrame

\* signal_terminate(): the hub sets the flag in the window of every spoke that has one
ChanSignalTerminate(h) ==
    /\ strataRank[h] = 0 /\ cylRank[h] = 0 /\ err[h] = "none" /\ rpoll.pc = 0
    /\ IF Closed(win[h])
       THEN /\ ChanError(h)
            /\ UNCHANGED <<flag, writes>>
       ELSE /\ flag' = SignalTerminate(flag, { s \in SpokesOf(h) : win[s] = "open" })
            /\ writes' = writes \cup
                   { <<h, s, "flag">> : s \in { t \in SpokesOf(h) : win[t] = "open" } }
            /\ UNCHANGED err
    /\ UNCHANGED <<win, wmem, wpc, rpoll, lastgen, pubs, consumed>>
    /\ TrackerFrame /\ ChanFrame

\* free_windows(): the window is released; a channel that is not open rejects the call
ChanFreeWindows(p) ==
    /\ cylRank[p] = 0 /\ err[p] = "none" /\ wpc[p] = 0
    /\ strataRank[p] = 0 => rpoll.pc = 0
    /\ IF Closed(win[p])
       THEN ChanError(p) /\ UNCHANGED win
       ELSE /\ win' = [win EXCEPT ![p] = "freed"]
            /\ UNCHANGED err
    /\ UNCHANGED <<flag, wmem, wpc, rpoll, lastgen, pubs, consumed, writes>>
    /\ TrackerFrame /\ ChanFrame

\* the channel of a hub, k spokes and r processes per role in which nothing was
\* published or polled, after make_windows (made) or before it
ChanStart(k, r, made) ==
    /\ Built(k, r, made)
    /\ last_ib_idx = [p \in 0 .. ((k + 1) * r - 1) |-> <<>>]
    /\ lastq = <<>>
    /\ BestInnerBound = <<>>
    /\ BestOuterBound = <<>>
    /\ updates = <<>>
    /\ wmem = [p \in 0 .. k |-> [gen |-> 0, pay |-> 0, bnd |-> NoBounds]]
    /\ wpc = [p \in 0 .. ((k + 1) * r - 1) |-> 0]
    /\ rpoll = NoPoll
    /\ lastgen = [p \in 0 .. k |-> 0]
    /\ pubs = [p \in 0 .. k |-> <<>>]
    /\ consumed = <<>>
    /\ writes = {}
    /\ lastop = <<>>
    /\ NoSolvers

\* every process of the strata group has returned from make_windows
ChanInit ==
    /\ ChanStart(ChanSpokes, 1, TRUE)
    /\ sense \in {"min", "max"}

ChanProcIds == 0 .. ChanSpokes

ChanNext ==
    \E p \in ChanProcIds :
        \/ (PublishCall(p) /\ UNCHANGED lastop)
        \/ (\E rec \in ChanRecords : PublishBounds(p, rec) /\ UNCHANGED lastop)
        \/ (PublishCommit(p) /\ UNCHANGED lastop)
        \/ (\E s \in ChanProcIds : PollCall(p, s) /\ UNCHANGED lastop)
        \/ (PollPayload(p) /\ UNCHANGED lastop)
        \/ (PollBounds(p) /\ UNCHANGED lastop)
        \/ (PollRecheck(p) /\ UNCHANGED lastop)

\* the publishes of the spokes and the polls of the hub of one strata group, under any
\* interleaving
ChannelSpec == ChanInit /\ [][ChanNext]_vars

\* ---------------------------------------------------------- channel lifetime
\* a call of operation op by process p, made when the channel it uses was in state w,
\* with its outcome
ChanCall(p, op, w, A) ==
    /\ A
    /\ lastop' = <<p, op, w, IF err'[p] # err[p] THEN "error" ELSE "ok">>

\* the strata group and its replicas before make_windows
LifeInit ==
    /\ ChanStart(LifeSpokes, LifeReplicas, FALSE)
    /\ sense = "min"

LifeProcIds == 0 .. ((LifeSpokes + 1) * LifeReplicas - 1)

LifeNext ==
    \E p \in LifeProcIds :
        \/ ChanCall(p, "make_windows", win[p], ChanMakeWindows(p))
        \/ (/\ win[WindowOf(p)] = "open" => wmem[WindowOf(p)].gen < LifeGen
            /\ ChanCall(p, "publish", win[WindowOf(p)], PublishCall(p)))
        \/ (\E rec \in ChanRecords :
                ChanCall(p, "publish", win[WindowOf(p)], PublishBounds(p, rec)))
        \/ ChanCall(p, "publish", win[WindowOf(p)], PublishCommit(p))
        \/ (\E s \in LifeProcIds : ChanCall(p, "poll", win[p], PollCall(p, s)))
        \/ ChanCall(p, "poll", win[p], PollPayload(p))
        \/ ChanCall(p, "poll", win[p], PollBounds(p))
        \/ ChanCall(p, "poll", win[p], PollRecheck(p))
        \/ ChanCall(p, "signal_terminate", win[p], ChanSignalTerminate(p))
        \/ ChanCall(p, "free_windows", win[p], ChanFreeWindows(p))

\* the channel calls of every process of the world, in any order, from before
\* make_windows to after free_windows
LifetimeSpec == LifeInit /\ [][LifeNext]_vars

\* -------------------------------------------------------- subproblem solvers
MaxSubproblems == 2   \* local subproblems of the process
MaxLoops == 1         \* solve_loop calls explored

MaxScenarios == 3     \* local scenarios of the process when they are bundled
MaxSolveLoops == 2    \* solve_loop calls explored once the solvers are created

MAX_ACQUIRE_LICENSE_RETRY_ATTEMPTS == 5

Subproblems == 1 .. MaxSubproblems

\* local_scenarios: without bundles the subproblems are the scenarios themselves
LocalScenarios == IF bundling THEN 1 .. MaxScenarios ELSE Subproblems

\* s._ef_scenario_names of bundle k, in the order of the list
EFScenarioNames(k) == { sn \in 1 .. MaxScenarios : ((sn - 1) % MaxSubproblems) + 1 = k }

\* the value of a Var: None, not a number, or <<v>> for v halves
None == <<>>
NaN == <<0, 0>>

\* the <<Lower_bound, Upper_bound>> a solver reports with good results
ResultBounds == {<<1, 2>>, <<2, 3>>}

\* the value a solver reports for a Var (halves)
SolutionValue == <<2>>

\* what the run of the process leaves alone while its solvers are followed
SolverFrame == UNCHANGED <<last_ib_idx, lastq, tvars, cvars, RunVars>>

\* what the solve loops leave alone: what is fixed when the SPOpt object is
\* constructed, the caches of the non-anticipative variables and the record of the
\* calls on them
SolveFrame ==
    /\ UNCHANGED <<is_minimizing, bundling, extensions, node_list, zero_prob, integer,
                   surrogate_vardatas, initial_fixed>>
    /\ UNCHANGED <<nonant_cache, fixedness_cache, original_nonants, original_fixedness,
                   nout, nops>>
    /\ SolverFrame

\* what the creation of the solvers leaves alone
CreateFrame ==
    /\ UNCHANGED <<outer_bound, inner_bound, results, local_feasible, hooks, nonants>>
    /\ SolveFrame

\* a retry loop that never gives up
ExhaustedNever(n) == FALSE

\* set_instance_retry gives up: the failed call was the one after the last retry
Exhausted(n) == n = MAX_ACQUIRE_LICENSE_RETRY_ATTEMPTS

\* sputils.not_good_enough_results(results): no results object, or results that carry
\* no usable solution
NotGoodEnough(res) == res # "good"

\* a Var as the scenario creator leaves it: stale until it is given a value
InitialVar(v, f) == [value |-> v, fixed |-> f, stale |-> v = None]

InitialVars == { InitialVar(<<0>>, FALSE), InitialVar(None, FALSE), InitialVar(<<0>>, TRUE) }

\* no subproblem has been solved
NoBoundsYet ==
    /\ outer_bound = [k \in Subproblems |-> <<>>]
    /\ inner_bound = [k \in Subproblems |-> <<>>]
    /\ results = <<>>
    /\ local_feasible = [sn \in LocalScenarios |-> IF bundling THEN "unset" ELSE <<>>]
    /\ hooks = <<>>

\* _create_fixed_nonant_cache: the Vars that are fixed at construction
InitiallyFixed(nn) ==
    UNION { { <<sn, ci>> : ci \in { c \in DOMAIN nn[sn] : nn[sn][c].fixed } } :
            sn \in DOMAIN nn }

\* a node of s._mpisppy_node_list: its name and nlens[name]
Node(ndn, n) == [name |-> ndn, nlens |-> n]

\* a two-stage problem: every local scenario has the node ROOT with one
\* non-anticipative Var, v[sn]; the scenarios of zp have probability zero for it
TwoStage(v, zp) ==
    /\ node_list = [sn \in LocalScenarios |-> << Node(<<"ROOT">>, 1) >>]
    /\ nonants = [sn \in LocalScenarios |-> << v[sn] >>]
    /\ zero_prob = [sn \in LocalScenarios |-> IF sn \in zp THEN {1} ELSE {}]
    /\ integer = {} /\ surrogate_vardatas = {}
    /\ nonant_cache = [sn \in LocalScenarios |-> <<>>]
    /\ fixedness_cache = [sn \in LocalScenarios |-> <<>>]
    /\ original_nonants = [sn \in LocalScenarios |-> <<>>]
    /\ original_fixedness = [sn \in LocalScenarios |-> <<>>]
    /\ initial_fixed = InitiallyFixed(nonants)
    /\ nout = <<>> /\ nops = 0

\* the SPOpt object is being constructed with one solver for all its subproblems,
\* persistent or not; _create_solvers is at its first subproblem
SolverInit ==
    /\ Built(1, 1, TRUE)
    /\ last_ib_idx = [p \in 0 .. 1 |-> <<>>]
    /\ lastq = <<>>
    /\ sense = "min"
    /\ BestInnerBound = <<>> /\ BestOuterBound = <<>> /\ updates = <<>>
    /\ NoChannel
    /\ spc = "create"
    /\ persistent \in BOOLEAN
    /\ sidx = 1
    /\ num_retry_attempts = 0
    /\ calls = [k \in Subproblems |-> <<>>]
    /\ sleeps = [k \in Subproblems |-> 0]
    /\ loops = 0
    /\ args = [need_solution |-> TRUE, gripe |-> FALSE]
    /\ scenario_feasible = [k \in Subproblems |-> "unset"]
    /\ solution_available = [k \in Subproblems |-> "unset"]
    /\ sout = <<>>
    /\ is_minimizing = TRUE /\ bundling = FALSE /\ extensions = FALSE
    /\ NoBoundsYet
    /\ TwoStage([sn \in Subproblems |-> InitialVar(<<0>>, FALSE)], {})

\* _create_solvers, one turn of its loop: a persistent solver is given its instance by
\* set_instance_retry, whose counter starts at 0; after the last subproblem the
\* solvers are created
CreateSolver ==
    /\ spc = "create"
    /\ IF sidx > MaxSubproblems
       THEN spc' = "idle" /\ UNCHANGED sidx
       ELSE IF persistent
       THEN spc' = "attempt" /\ UNCHANGED sidx
       ELSE spc' = "create" /\ sidx' = sidx + 1
    /\ num_retry_attempts' = 0
    /\ UNCHANGED <<persistent, calls, sleeps, loops, args, scenario_feasible,
                   solution_available, sout>>
    /\ CreateFrame

\* set_instance_retry, the call of solver_plugin.set_instance: when it succeeds the
\* loop is left; when it raises, the function raises if the retries are exhausted, and
\* otherwise goes to sleep
SetInstance(ok) ==
    /\ spc = "attempt"
    /\ calls' = [calls EXCEPT ![sidx] = Append(@, IF ok THEN "ok" ELSE "fail")]
    /\ IF ok
       THEN spc' = "create" /\ sidx' = sidx + 1 /\ UNCHANGED sleeps
       ELSE IF Exhausted(num_retry_attempts)
       THEN spc' = "failed" /\ UNCHANGED <<sidx, sleeps>>
       ELSE /\ spc' = "sleep"
            /\ sleeps' = [sleeps EXCEPT ![sidx] = @ + 1]
            /\ UNCHANGED sidx
    /\ UNCHANGED <<persistent, num_retry_attempts, loops, args, scenario_feasible,
                   solution_available, sout>>
    /\ CreateFrame

\* set_instance_retry, the sleep is over: the counter is incremented and the loop
\* starts again
RetrySleep ==
    /\ spc = "sleep"
    /\ spc' = "attempt"
    /\ num_retry_attempts' = num_retry_attempts + 1
    /\ UNCHANGED <<persistent, sidx, calls, sleeps, loops, args, scenario_feasible,
                   solution_available, sout>>
    /\ CreateFrame

\* solve_loop(need_solution, gripe) is called: with an extension, pre_solve_loop
SolveLoopCall(need, gr) ==
    /\ spc = "idle"
    /\ spc' = "loop"
    /\ sidx' = 1
    /\ loops' = loops + 1
    /\ args' = [need_solution |-> need, gripe |-> gr]
    /\ hooks' = IF extensions THEN << <<"pre_solve_loop">> >> ELSE <<>>
    /\ UNCHANGED <<persistent, num_retry_attempts, calls, sleeps, scenario_feasible,
                   solution_available, sout, outer_bound, inner_bound, results,
                   local_feasible, nonants>>
    /\ SolveFrame

\* solve_loop has called solve_one for every subproblem: with an extension,
\* post_solve_loop
SolveLoopReturn ==
    /\ spc = "loop" /\ sidx > MaxSubproblems
    /\ spc' = "idle"
    /\ hooks' = IF extensions THEN Append(hooks, <<"post_solve_loop">>) ELSE hooks
    /\ UNCHANGED <<persistent, sidx, num_retry_attempts, calls, sleeps, loops, args,
                   scenario_feasible, solution_available, sout, outer_bound,
                   inner_bound, results, local_feasible, nonants>>
    /\ SolveFrame

\* what solve_one does with subproblem k: the solver's solve raises ("exception") or
\* returns results; results not good enough mark the subproblem infeasible, are solved
\* again with tee when gripe is set and there is no results object (again: how that
\* second solve ends), and the solver's exception is raised again; good results are
\* loaded (load: whether loading succeeds) and mark the subproblem feasible.
\* The outcome is [feasible, available, what, how]
SolveOutcome(k, need, gr, out, again, load) ==
    LET res == IF out = "exception" THEN "none" ELSE out
        solver_exception == out = "exception" IN
    IF NotGoodEnough(res)
    THEN [feasible |-> "False",
          available |-> solution_available[k],
          what |-> IF solver_exception THEN "error" ELSE "not_good",
          how |-> IF (gr /\ res = "none" /\ again = "exception") \/ solver_exception
                  THEN "raised" ELSE "returned"]
    ELSE IF ~load /\ need
    THEN [feasible |-> scenario_feasible[k],
          available |-> solution_available[k],
          what |-> "load", how |-> "raised"]
    ELSE [feasible |-> "True",
          available |-> IF load THEN "True" ELSE "False",
          what |-> IF load THEN "ok" ELSE "load", how |-> "returned"]

\* the bounds with the sense swapped
SenseBoundsSwapped(rb) == IF is_minimizing THEN [outer |-> <<rb[2]>>, inner |-> <<rb[1]>>]
                          ELSE [outer |-> <<rb[1]>>, inner |-> <<rb[2]>>]

\* the bounds solve_one takes from results.Problem[0]: minimizing, the outer bound is
\* the lower bound and the inner bound the upper bound; maximizing, the other way round
SenseBounds(rb) == IF is_minimizing THEN [outer |-> <<rb[1]>>, inner |-> <<rb[2]>>]
                   ELSE [outer |-> <<rb[2]>>, inner |-> <<rb[1]>>]

\* the local scenarios of subproblem k: those of the bundle, or the scenario itself
ScenariosOf(k) == IF bundling THEN EFScenarioNames(k) ELSE {k}

\* loading the solution into the scenarios of subproblem k: a Var that is not fixed
\* gets the solver's value when the solver reports it (rep) and is stale when not
Loaded(nn, k, rep) ==
    [sn \in DOMAIN nn |->
        IF sn \notin ScenariosOf(k) THEN nn[sn]
        ELSE [ci \in DOMAIN nn[sn] |->
                IF nn[sn][ci].fixed THEN nn[sn][ci]
                ELSE IF <<sn, ci>> \in rep
                THEN [nn[sn][ci] EXCEPT !.value = SolutionValue, !.stale = FALSE]
                ELSE [nn[sn][ci] EXCEPT !.stale = TRUE]]]

\* float(pyo.value(v)) does not raise
UsableAlways(value) == TRUE

Usable(value) == value # None

\* _check_staleness(s) for Vars vs of a scenario with zero-probability indices zp:
\* the index of the first Var it raises for, 0 when it returns
StaleVar(vs, zp) ==
    LET bad == { ci \in DOMAIN vs :
                   /\ ~vs[ci].fixed /\ vs[ci].stale
                   /\ IF ci \in zp /\ vs[ci].value = None THEN TRUE
                      ELSE ~Usable(vs[ci].value) } IN
    IF bad = {} THEN 0 ELSE CHOOSE ci \in bad : \A c \in bad : ci <= c

\* solve_one checks the staleness of a scenario marked feasible
Checked(feasible) == feasible = "True"

\* the scenarios of a bundle that are given the bundle's flag: none
PropagatedNone(k, stop) == {}

\* the scenarios of a bundle that are given the bundle's flag: the loop over
\* _ef_scenario_names ends at the scenario the staleness check raises for (stop, 0
\* when it raises for none)
Propagated(k, stop) == { sn \in EFScenarioNames(k) : stop = 0 \/ sn <= stop }

\* post_solve is called however solve_one ends
SolveHooksPostAlways(k, how) == << <<"pre_solve", k>>, <<"solve", k>>, <<"post_solve", k>> >>

\* what solve_one on subproblem k does with an extension: pre_solve before the solve,
\* post_solve after it when nothing was raised in between
SolveHooks(k, how) ==
    << <<"pre_solve", k>>, <<"solve", k>> >>
        \o (IF how = "returned" THEN << <<"post_solve", k>> >> ELSE <<>>)

\* solve_loop calls solve_one on its next subproblem (no agnostic callout is attached);
\* an exception of solve_one ends solve_loop.  rb are the bounds of good results, rep
\* the Vars the solver reports
SolveOne(out, again, load, rb, rep) ==
    /\ spc = "loop" /\ sidx <= MaxSubproblems
    /\ LET k == sidx
           o == SolveOutcome(k, args.need_solution, args.gripe, out, again, load)
           good == o.what \in {"ok", "load"} /\ o.how = "returned"
           nn == IF o.what = "ok" THEN Loaded(nonants, k, rep) ELSE nonants
           fatal == IF o.how = "returned" /\ Checked(o.feasible)
                    THEN { sn \in ScenariosOf(k) : StaleVar(nn[sn], zero_prob[sn]) # 0 }
                    ELSE {}
           stop == IF fatal = {} THEN 0 ELSE CHOOSE sn \in fatal : \A t \in fatal : sn <= t
           how == IF stop # 0 THEN "raised" ELSE o.how
           what == IF stop = 0 THEN o.what
                   ELSE IF StaleVar(nn[stop], zero_prob[stop]) \in zero_prob[stop]
                           /\ nn[stop][StaleVar(nn[stop], zero_prob[stop])].value = None
                   THEN "zero_prob_stale" ELSE "stale" IN
       /\ scenario_feasible' = [scenario_feasible EXCEPT ![k] = o.feasible]
       /\ solution_available' = [solution_available EXCEPT ![k] = o.available]
       /\ results' = IF out = "good" THEN rb ELSE <<>>
       /\ outer_bound' = IF good THEN [outer_bound EXCEPT ![k] = SenseBounds(rb).outer]
                         ELSE outer_bound
       /\ inner_bound' = IF good THEN [inner_bound EXCEPT ![k] = SenseBounds(rb).inner]
                         ELSE inner_bound
       /\ nonants' = nn
       /\ local_feasible' = IF bundling /\ o.how = "returned"
                            THEN [sn \in DOMAIN local_feasible |->
                                    IF sn \in Propagated(k, stop) THEN o.feasible
                                    ELSE local_feasible[sn]]
                            ELSE local_feasible
       /\ hooks' = IF extensions THEN hooks \o SolveHooks(k, how) ELSE hooks
       /\ sout' = <<k, args.need_solution, what, how>>
       /\ IF how = "raised"
          THEN spc' = "idle" /\ UNCHANGED sidx
          ELSE spc' = "loop" /\ sidx' = sidx + 1
    /\ UNCHANGED <<persistent, num_retry_attempts, calls, sleeps, loops, args>>
    /\ SolveFrame

SolverOutcomes == {"exception", "bad", "good"}

\* the Vars of subproblem k a solver may report
Reports(k) == SUBSET UNION { { <<sn, ci>> : ci \in DOMAIN nonants[sn] } :
                               sn \in ScenariosOf(k) \cap DOMAIN nonants }

\* the creation of the solvers, then solve loops in which a solver that has good
\* results has the same bounds each time and a value for every Var
SolverNext ==
    \/ CreateSolver
    \/ (\E ok \in BOOLEAN : SetInstance(ok))
    \/ RetrySleep
    \/ (loops < MaxLoops /\ \E need \in BOOLEAN : \E gr \in BOOLEAN :
            SolveLoopCall(need, gr))
    \/ SolveLoopReturn
    \/ (\E out \in SolverOutcomes : \E again \in SolverOutcomes : \E load \in BOOLEAN :
            SolveOne(out, again, load, <<1, 2>>, UNION Reports(sidx)))

\* the solvers of one process: their creation, then solve loops
SolverSpec == SolverInit /\ [][SolverNext]_vars

\* the same, where the process keeps running: a call returns or raises, a sleep ends
SolverFairSpec == SolverSpec /\ WF_vars(SolverNext)

\* the SPOpt object has its solvers: a two-stage problem, bundled or not, minimizing
\* or maximizing, with or without an extension
SolveInit ==
    /\ Built(1, 1, TRUE)
    /\ last_ib_idx = [p \in 0 .. 1 |-> <<>>]
    /\ lastq = <<>>
    /\ sense = "min"
    /\ BestInnerBound = <<>> /\ BestOuterBound = <<>> /\ updates = <<>>
    /\ NoChannel
    /\ spc = "idle"
    /\ persistent = FALSE
    /\ sidx = MaxSubproblems + 1
    /\ num_retry_attempts = 0
    /\ calls = [k \in Subproblems |-> <<>>]
    /\ sleeps = [k \in Subproblems |-> 0]
    /\ loops = 0
    /\ args = [need_solution |-> TRUE, gripe |-> FALSE]
    /\ scenario_feasible = [k \in Subproblems |-> "unset"]
    /\ solution_available = [k \in Subproblems |-> "unset"]
    /\ sout = <<>>
    /\ is_minimizing \in BOOLEAN /\ bundling \in BOOLEAN /\ extensions \in BOOLEAN
    /\ NoBoundsYet
    /\ \E v \in [LocalScenarios -> InitialVars] : \E zp \in {{}, {1}} : TwoStage(v, zp)

\* solve loops without gripe (so without a second solve), whose solvers report any
\* of the bounds and any of the Vars
SolveNext ==
    \/ (loops < MaxSolveLoops /\ \E need \in BOOLEAN : SolveLoopCall(need, FALSE))
    \/ SolveLoopReturn
    \/ (\E out \in SolverOutcomes : \E load \in BOOLEAN :
        \E rb \in ResultBounds : \E rep \in Reports(sidx) :
            SolveOne(out, "good", load, rb, rep))

\* the solve loops of one process whose solvers are created
SolveSpec == SolveInit /\ [][SolveNext]_vars

\* ------------------------------------------------- non-anticipative variables
MaxNonantOps == 4     \* calls on the non-anticipative variables explored

rounding_bias == 0    \* options.get("rounding_bias", 0.0), in halves

\* Python's round() of h halves, as halves: a tie goes to the even integer
Round(h) == IF h % 2 = 0 THEN h ELSE IF ((h - 1) \div 2) % 2 = 0 THEN h - 1 ELSE h + 1

\* a value stored in a numpy array of doubles: None becomes nan
ToDoubleExact(value) == value

ToDouble(value) == IF value = None THEN NaN ELSE value

\* what a cache given to _fix_nonants can hold for a node name: nothing (the name is
\* not in the cache), None, or a vector
CacheEntries ==
    { [kind |-> "missing", vec |-> <<>>], [kind |-> "None", vec |-> <<>>],
      [kind |-> "vector", vec |-> <<3>>], [kind |-> "vector", vec |-> <<3, 3>>] }

\* the caches given to _fix_nonants, by node name (ROOT and the second-stage node of
\* each scenario): a vector of the right length for every name but at most one
FixCaches ==
    LET names == { <<"ROOT">> } \cup { <<"ROOT", sn - 1>> : sn \in Subproblems } IN
    { cache \in [names -> CacheEntries] :
        Cardinality({ ndn \in names : cache[ndn] # [kind |-> "vector", vec |-> <<3>>] })
            <= 1 }

\* a multi-stage problem without bundles: every local scenario has the node ROOT and
\* a second-stage node of its own, each with one non-anticipative Var; the Vars start
\* as v in every scenario; the ROOT Var is integer or not, the second-stage Var a
\* surrogate or not
MultiStage(v) ==
    /\ node_list = [sn \in LocalScenarios |->
                       << Node(<<"ROOT">>, 1), Node(<<"ROOT", sn - 1>>, 1) >>]
    /\ nonants = [sn \in LocalScenarios |-> v]
    /\ zero_prob = [sn \in LocalScenarios |-> {}]
    /\ integer \in {{}, {1}}
    /\ surrogate_vardatas \in {{}, {2}}
    /\ nonant_cache = [sn \in LocalScenarios |-> <<>>]
    /\ fixedness_cache = [sn \in LocalScenarios |-> <<>>]
    /\ original_nonants = [sn \in LocalScenarios |-> <<>>]
    /\ original_fixedness = [sn \in LocalScenarios |-> <<>>]
    /\ initial_fixed = InitiallyFixed(nonants)
    /\ nout = [op |-> "init", how |-> "ok", at |-> <<>>, saved |-> <<>>, clean |-> FALSE]
    /\ nops = 0

\* the SPOpt object is constructed, its solvers are created
NonantInit ==
    /\ Built(1, 1, TRUE)
    /\ last_ib_idx = [p \in 0 .. 1 |-> <<>>]
    /\ lastq = <<>>
    /\ sense = "min"
    /\ BestInnerBound = <<>> /\ BestOuterBound = <<>> /\ updates = <<>>
    /\ NoChannel
    /\ spc = "idle"
    /\ persistent = FALSE
    /\ sidx = MaxSubproblems + 1
    /\ num_retry_attempts = 0
    /\ calls = [k \in Subproblems |-> <<>>]
    /\ sleeps = [k \in Subproblems |-> 0]
    /\ loops = 0
    /\ args = [need_solution |-> TRUE, gripe |-> FALSE]
    /\ scenario_feasible = [k \in Subproblems |-> "unset"]
    /\ solution_available = [k \in Subproblems |-> "unset"]
    /\ sout = <<>>
    /\ is_minimizing = TRUE /\ bundling = FALSE /\ extensions = FALSE
    /\ NoBoundsYet
    /\ \E v \in [1 .. 2 -> InitialVars] : MultiStage(v)

\* a call on the non-anticipative variables is made and recorded: it ends as how; at
\* is, for a call that fixes, the <<scenario, node index>> it rejected (<<>> when
\* none) and the cache it was given; saved are the Vars as they were when _save_nonants was
\* last called, and clean tells that only _fix_nonants and _fix_root_nonants were
\* called since
NonantCall(op, how, at, saved, clean) ==
    /\ spc = "idle" /\ nops < MaxNonantOps
    /\ nops' = nops + 1
    /\ nout' = [op |-> op, how |-> how, at |-> at, saved |-> saved, clean |-> clean]
    /\ UNCHANGED <<spc, persistent, sidx, num_retry_attempts, calls, sleeps, loops,
                   args, scenario_feasible, solution_available, sout, ovars>>
    /\ UNCHANGED <<node_list, zero_prob, integer, surrogate_vardatas, initial_fixed>>
    /\ SolverFrame

\* the values and the fixedness stored for the Vars vs of a scenario, the values in
\* a numpy array of doubles
SavedValues(vs) == [ci \in DOMAIN vs |-> ToDouble(vs[ci].value)]

SavedFixedness(vs) == [ci \in DOMAIN vs |-> vs[ci].fixed]

\* _save_nonants: the caches are created when missing and filled from the Vars
SaveNonants ==
    /\ nonant_cache' = [sn \in LocalScenarios |-> SavedValues(nonants[sn])]
    /\ fixedness_cache' = [sn \in LocalScenarios |-> SavedFixedness(nonants[sn])]
    /\ UNCHANGED <<nonants, original_nonants, original_fixedness>>
    /\ NonantCall("save", "ok", <<>>, nonants, TRUE)

\* _save_original_nonants: original_nonants and original_fixedness are created only
\* when there is no nonant_cache yet; when there is one and they do not exist, the
\* first assignment raises AttributeError
SaveOriginalNonants ==
    LET missing == \E sn \in LocalScenarios :
                      nonant_cache[sn] # <<>> /\ original_fixedness[sn] = <<>> IN
    /\ IF missing
       THEN UNCHANGED <<original_nonants, original_fixedness>>
       ELSE /\ original_fixedness' =
                   [sn \in LocalScenarios |-> SavedFixedness(nonants[sn])]
            /\ original_nonants' = [sn \in LocalScenarios |-> SavedValues(nonants[sn])]
    /\ UNCHANGED <<nonants, nonant_cache, fixedness_cache>>
    /\ NonantCall("save_original", IF missing THEN "raised" ELSE "ok", <<>>,
                  nout.saved, FALSE)

\* the check _fix_nonants makes of the cache entry e for a node with n Vars
EntryCheck(e, n) ==
    IF e.kind = "missing" THEN "missing"
    ELSE IF e.kind = "None" THEN "empty"
    ELSE IF Len(e.vec) # n THEN "length" ELSE "ok"

\* <<scenario, node index>> a comes before b in the loops of _fix_nonants
Before(a, b) == a[1] < b[1] \/ (a[1] = b[1] /\ a[2] < b[2])

NodeVisits == UNION { { <<sn, j>> : j \in DOMAIN node_list[sn] } : sn \in LocalScenarios }

\* the first <<scenario, node index>> whose cache entry _fix_nonants rejects, <<>>
\* when it rejects none
FirstRejected(cache) ==
    LET bad == { a \in NodeVisits :
                   EntryCheck(cache[node_list[a[1]][a[2]].name],
                              node_list[a[1]][a[2]].nlens) # "ok" } IN
    IF bad = {} THEN <<>> ELSE CHOOSE a \in bad : \A b \in bad : a = b \/ Before(a, b)

\* the whole cache is checked before any Var is fixed
VisitedAllOrNone(cache) == IF FirstRejected(cache) = <<>> THEN NodeVisits ELSE {}

\* the <<scenario, node index>> whose Vars _fix_nonants fixes: all of them, or those
\* before the first one it rejects
Visited(cache) ==
    IF FirstRejected(cache) = <<>> THEN NodeVisits
    ELSE { a \in NodeVisits : Before(a, FirstRejected(cache)) }

\* the Vars after the nodes of visits have been fixed at the values of the vectors
\* vec gives for them (every node has one Var here, so the ci-th Var of a scenario is
\* the Var of its ci-th node): a surrogate Var is skipped, the value of a binary or
\* integer Var is rounded
FixVars(visits, vec) ==
    [sn \in LocalScenarios |->
        [ci \in DOMAIN nonants[sn] |->
            IF <<sn, ci>> \in visits /\ ci \notin surrogate_vardatas
            THEN [nonants[sn][ci] EXCEPT
                    !.value = IF ci \in integer
                              THEN <<Round(vec[sn, ci][1] + rounding_bias)>>
                              ELSE <<vec[sn, ci][1]>>,
                    !.fixed = TRUE]
            ELSE nonants[sn][ci]]]

\* _fix_nonants(cache): scenario by scenario and node by node, the cache entry of the
\* node is checked and then its Vars are fixed at the entry's values
FixNonants(cache) ==
    LET first == FirstRejected(cache)
        vec == [a \in NodeVisits |-> cache[node_list[a[1]][a[2]].name].vec] IN
    /\ nonants' = FixVars(Visited(cache), vec)
    /\ UNCHANGED <<nonant_cache, fixedness_cache, original_nonants, original_fixedness>>
    /\ NonantCall("fix",
                  IF first = <<>> THEN "ok"
                  ELSE EntryCheck(cache[node_list[first[1]][first[2]].name],
                                  node_list[first[1]][first[2]].nlens),
                  <<first, cache>>, nout.saved, nout.clean)

\* _fix_root_nonants(root_cache): in each scenario the ROOT node is looked up, the
\* cache is checked and the Vars of ROOT are fixed; every scenario has a ROOT node
\* with the same number of Vars, so a cache that is rejected is rejected in the first
\* scenario
FixRootNonants(root_cache) ==
    LET check == EntryCheck(root_cache, node_list[1][1].nlens)
        roots == { a \in NodeVisits : node_list[a[1]][a[2]].name = <<"ROOT">> }
        vec == [a \in NodeVisits |-> root_cache.vec] IN
    /\ root_cache.kind # "missing"
    /\ nonants' = FixVars(IF check = "ok" THEN roots ELSE {}, vec)
    /\ UNCHANGED <<nonant_cache, fixedness_cache, original_nonants, original_fixedness>>
    /\ NonantCall("fix_root", check,
                  <<IF check = "ok" THEN <<>> ELSE <<1, 1>>, root_cache>>,
                  nout.saved, nout.clean)

\* the Vars of a scenario with the values and fixedness of the caches
Restored(vs, values, fixedness) ==
    [ci \in DOMAIN vs |-> [vs[ci] EXCEPT !.value = values[ci], !.fixed = fixedness[ci]]]

\* _restore_nonants: every Var gets the value of nonant_cache and the fixedness of
\* fixedness_cache; without the caches the first access raises AttributeError
RestoreNonants ==
    LET missing == \E sn \in LocalScenarios : nonant_cache[sn] = <<>> IN
    /\ nonants' = IF missing THEN nonants
                  ELSE [sn \in LocalScenarios |->
                          Restored(nonants[sn], nonant_cache[sn], fixedness_cache[sn])]
    /\ UNCHANGED <<nonant_cache, fixedness_cache, original_nonants, original_fixedness>>
    /\ NonantCall("restore", IF missing THEN "raised" ELSE "ok", <<>>,
                  nout.saved, FALSE)

\* _restore_original_fixedness: _save_nonants, then fixedness_cache is overwritten
\* with original_fixedness (AttributeError when _save_original_nonants never stored
\* it), then _restore_nonants
RestoreOriginalFixedness ==
    LET missing == \E sn \in LocalScenarios : original_fixedness[sn] = <<>>
        values == [sn \in LocalScenarios |-> SavedValues(nonants[sn])] IN
    /\ nonant_cache' = values
    /\ fixedness_cache' = IF missing
                          THEN [sn \in LocalScenarios |-> SavedFixedness(nonants[sn])]
                          ELSE original_fixedness
    /\ nonants' = IF missing THEN nonants
                  ELSE [sn \in LocalScenarios |->
                          Restored(nonants[sn], values[sn], original_fixedness[sn])]
    /\ UNCHANGED <<original_nonants, original_fixedness>>
    /\ NonantCall("restore_original_fixedness", IF missing THEN "raised" ELSE "ok",
                  <<>>, nonants, FALSE)

\* _can_update_best_bound answers whatever is fixed
CanUpdateAlways(nn) == TRUE

\* _can_update_best_bound: no Var is fixed that is not in _initial_fixed_varibles
CanUpdateBestBound(nn) ==
    \A sn \in DOMAIN nn : \A ci \in DOMAIN nn[sn] :
        nn[sn][ci].fixed => <<sn, ci>> \in initial_fixed

\* _can_update_best_bound is called
CanUpdateCall ==
    /\ UNCHANGED <<nonants, nonant_cache, fixedness_cache, original_nonants,
                   original_fixedness>>
    /\ NonantCall("can_update", IF CanUpdateBestBound(nonants) THEN "True" ELSE "False",
                  <<>>, nout.saved, FALSE)

NonantNext ==
    \/ SaveNonants
    \/ SaveOriginalNonants
    \/ (\E cache \in FixCaches : FixNonants(cache))
    \/ (\E root_cache \in CacheEntries : FixRootNonants(root_cache))
    \/ RestoreNonants
    \/ RestoreOriginalFixedness
    \/ CanUpdateCall

\* the calls made on the non-anticipative variables of one process
NonantSpec == NonantInit /\ [][NonantNext]_vars

\* ------------------------------------------------------------ role states
\* main() has returned on process p
MainReturned(p) ==
    /\ Len(log[p]) > 0
    /\ \E i \in DOMAIN log[p] : log[p][i] = "main"
    /\ Step(p) # "main"
    /\ err[p] # "main"

Called(p, s) == \E i \in DOMAIN log[p] : log[p][i] = s

Count(p, s) == Cardinality({ i \in DOMAIN log[p] : log[p][i] = s })

\* the role state of the design: 0 CREATED, 1 WINDOWS_OPEN, 2 RUNNING, 3 TERMINATING,
\* 4 FINALIZED (finalize made and the barrier after it passed)
RoleState(p) ==
    IF Called(p, "hub_finalize") THEN 4
    ELSE IF MainReturned(p) THEN 3
    ELSE IF Called(p, "main") THEN 2
    ELSE IF Called(p, "make_windows") /\ Step(p) # "make_windows" THEN 1
    ELSE 0

\* ----------------------------------------------------------------- claims
IsPrefix(a, b) == Len(a) <= Len(b) /\ \A i \in DOMAIN a : a[i] = b[i]

HubCalls ==
    <<"split_strata", "split_cylinder", "build", "make_windows", "setup_hub", "main",
      "send_terminate", "finalize", "cylinder_barrier", "world_barrier",
      "hub_finalize", "free_windows", "world_barrier", "store">>

SpokeCalls ==
    <<"split_strata", "split_cylinder", "build", "make_windows", "main",
      "finalize", "cylinder_barrier", "world_barrier",
      "hub_finalize", "free_windows", "world_barrier", "store">>

CallsOf(p) == IF strataRank[p] = 0 THEN HubCalls ELSE SpokeCalls

\* C1, state part: on every process the calls made so far are an initial part of the
\* fixed order make_windows, (hub) setup_hub, main, (hub) send_terminate, finalize,
\* the two barriers, hub_finalize, free_windows, closing barrier; a completed run()
\* has made every one of them exactly once
C1_OrderInv ==
    \A p \in Procs :
        /\ IsPrefix(log[p], CallsOf(p))
        /\ ran[p] => log[p] = CallsOf(p)

\* C1, step part: the role state never moves backward and never skips a state
C1_RoleStep ==
    \A p \in Procs : RoleState(p)' \in {RoleState(p), RoleState(p) + 1}

\* C1: the lifecycle calls of run() are made in the fixed order, each exactly once, and
\* the role state only moves CREATED -> WINDOWS_OPEN -> RUNNING -> TERMINATING ->
\* FINALIZED, one state at a time
C1_Lifecycle == [](C1_OrderInv) /\ [][C1_RoleStep]_vars

\* C1 witness: a hub and a spoke have both completed run()
C1_Witness ==
    \E p, q \in Procs :
        /\ ran[p] /\ ran[q]
        /\ strataRank[p] = 0 /\ strataRank[q] = 1
        /\ RoleState(p) = 4 /\ RoleState(q) = 4

\* C2: whenever a process has called free_windows, or is about to, every process of the
\* world group has made its finalize() call
C2_FreeAfterAllFinalize ==
    \A p \in Procs :
        (Called(p, "free_windows") \/ Step(p) = "free_windows")
            => \A q \in Procs : Called(q, "finalize")

\* C2 witness: in a world of a hub and spokes, a process has released its window
C2_Witness ==
    /\ nproc >= 2 /\ n_spcomms >= 2
    /\ \E p \in Procs : win[p] = "freed"

\* C3 as stated: a barrier separates the hub's send_terminate from the finalize hooks,
\* so that no process finalizes while another is still inside main(); and a barrier
\* separates the finalize hooks from free_windows
C3_BarrierBeforeFinalize ==
    /\ \A p \in Procs : \A q \in strataGroup[p] :
           (Called(p, "finalize") /\ err[q] = "none") => MainReturned(q)
    /\ \A p, q \in Procs : Called(p, "free_windows") => Called(q, "finalize")

\* the barriers process p has entered before position n of its log
BarriersBefore(p, n) ==
    { i \in 1 .. (n - 1) : log[p][i] \in {"cylinder_barrier", "world_barrier"} }

\* C3 amended: both barriers come after the process's own finalize: none is entered
\* between send_terminate and finalize; the cylinder barrier is passed only when the
\* whole cylinder group has finalized, and the world barrier, passed before
\* hub_finalize and free_windows, only when every process has finalized and every hub
\* has sent the termination signal
C3_BarriersAfterFinalize ==
    \A p \in Procs :
        /\ \A n \in DOMAIN log[p] :
               log[p][n] \in {"send_terminate", "finalize"} => BarriersBefore(p, n) = {}
        /\ \A n \in DOMAIN log[p] :
               log[p][n] \in {"hub_finalize", "free_windows"}
                   => Cardinality(BarriersBefore(p, n)) = 2
        /\ (Called(p, "cylinder_barrier") /\ Step(p) # "cylinder_barrier")
               => \A q \in cylGroup[p] : Called(q, "finalize")
        /\ (Called(p, "hub_finalize") \/ Step(p) = "hub_finalize")
               => \A q \in Procs :
                      /\ Called(q, "finalize")
                      /\ strataRank[q] = 0 => Called(q, "send_terminate")

\* C3 witness: with a hub and a spoke, a process is past both barriers
C3_Witness ==
    /\ n_spcomms >= 2
    /\ \E p \in Procs : Called(p, "hub_finalize")

\* C4: no process has released its window while the hub of its strata group has still
\* to read that window in hub_finalize
C4_NoReadAfterFree ==
    \A h, s \in Procs :
        (strataRank[h] = 0 /\ s \in SpokesOf(h) /\ win[s] = "freed")
            => (Called(h, "hub_finalize") /\ s \notin toRead[h])

\* every process has returned from a completed run()
AllRan == \A p \in Procs : ran[p]

\* C5: with a well-formed configuration and no exception inside a main() or a
\* finalize(), every process eventually passes all barriers, frees its windows and
\* returns from run()
C5_Terminates ==
    <>(AllRan \/ \E p \in Procs : err[p] \in {"keys", "count", "main", "finalize"})

\* C6: once run() has completed on an instance, a later call is rejected with the
\* run-once error and nothing is executed again: no split, no lifecycle call, no
\* window change, no change of the stored results, and _ran stays set
C6_RunOnce ==
    [][\A p \in Procs :
          ran[p] =>
            /\ ran'[p] /\ pos'[p] = 0
            /\ err'[p] \in {err[p], "once"}
            /\ log'[p] = log[p]
            /\ win' = win /\ flag' = flag
            /\ fullColl'[p] = fullColl[p] /\ strataColl'[p] = strataColl[p]
            /\ cylColl'[p] = cylColl[p]
            /\ strataGroup'[p] = strataGroup[p] /\ cylGroup'[p] = cylGroup[p]
            /\ result'[p] = result[p]
            /\ hub_dict'[p] = hub_dict[p] /\ spoke_dicts'[p] = spoke_dicts[p]]_vars

\* C6 witness: a second call of run() has been rejected on a process that completed one
C6_Witness == \E p \in Procs : ran[p] /\ err[p] = "once" /\ Count(p, "main") = 1

\* C7: send_terminate is called by hubs only, at most once per run and only after the
\* hub's main() has returned; a flag that is set was set by the hub of that strata
\* group, which has left its main loop
C7_HubOnlyTerminate ==
    /\ \A p \in Procs : strataRank[p] # 0 => ~Called(p, "send_terminate")
    /\ \A p \in Procs : Count(p, "send_terminate") <= 1
    /\ \A p \in Procs : (ran[p] /\ strataRank[p] = 0) => Count(p, "send_terminate") = 1
    /\ \A p \in Procs : Called(p, "send_terminate") => MainReturned(p)
    /\ \A s \in Procs :
           flag[s] => \E h \in strataGroup[s] :
                          /\ strataRank[h] = 0 /\ h # s
                          /\ Called(h, "send_terminate") /\ MainReturned(h)

\* C7 witness: a hub has sent the signal to a spoke that is still inside its main loop
C7_Witness ==
    \E h, s \in Procs :
        /\ Called(h, "send_terminate") /\ s \in SpokesOf(h)
        /\ flag[s] /\ Step(s) = "main"

\* C8, state part: a flag lives in a spoke's window and is false until a signal has been
\* sent to it, a
\* spoke has observed true only of a flag that is true, and signalling again after
\* the first signal leaves every flag as it is
C8_FlagInv ==
    /\ \A s \in Procs :
           flag[s] => /\ strataRank[s] >= 1
                      /\ \E h \in Procs : s \in SpokesOf(h) /\ Called(h, "send_terminate")
    /\ \A s \in Procs : seen[s] => flag[s]
    /\ \A h \in Procs :
           Called(h, "send_terminate") => SignalTerminate(flag, SpokesOf(h)) = flag

\* C8, step part: a flag that is true stays true, and so does what a spoke observed
C8_FlagStep ==
    \A s \in Procs : (flag[s] => flag'[s]) /\ (seen[s] => seen'[s])

\* C8: the termination flag starts false, is monotonic for every reader, and a
\* signal after the first changes nothing
C8_FlagMonotonic == [](C8_FlagInv) /\ [][C8_FlagStep]_vars

\* C8 witness: a spoke has observed its flag true and has gone on to finish run()
C8_Witness == \E s \in Procs : seen[s] /\ flag[s] /\ ran[s] /\ strataRank[s] # 0

\* the topology build has completed on every process
AllSplit == \A p \in Procs : strataRank[p] >= 0 /\ cylRank[p] >= 0

\* C9: for a world size that is a multiple of K+1, every strata group has K+1 members,
\* a process's strata_rank is its global rank modulo K+1, and every
\* (strata_rank, cylinder_rank) pair is held by exactly one process
C9_Topology ==
    /\ \A p \in Procs :
           strataRank[p] >= 0 =>
               /\ Cardinality(strataGroup[p]) = n_spcomms
               /\ strataRank[p] = p % n_spcomms
    /\ AllSplit =>
           \A r \in 0 .. (n_spcomms - 1) : \A c \in 0 .. ((nproc \div n_spcomms) - 1) :
               Cardinality({ p \in Procs : strataRank[p] = r /\ cylRank[p] = c }) = 1

\* C9 witness: two roles with two replicas each have been laid out
C9_Witness == AllSplit /\ nproc = 4 /\ n_spcomms = 2

\* C10 as stated: the topology build yields exactly one process with strata_rank 0, and
\* every strata_rank has the same cylinder-group size
C10_OneHubProcess ==
    AllSplit =>
        /\ Cardinality({ p \in Procs : strataRank[p] = 0 }) = 1
        /\ \A p, q \in Procs : Cardinality(cylGroup[p]) = Cardinality(cylGroup[q])

\* C10 amended: every strata group holds exactly one process with strata_rank 0, so
\* there are world_size / role_count of them in all, and the cylinder group of every
\* strata_rank is the set of the processes of that rank, world_size / role_count
\* of them
C10_OneHubPerStrata ==
    AllSplit =>
        /\ \A p \in Procs :
               Cardinality({ q \in strataGroup[p] : strataRank[q] = 0 }) = 1
        /\ Cardinality({ p \in Procs : strataRank[p] = 0 }) = nproc \div n_spcomms
        /\ \A p \in Procs :
               /\ cylGroup[p] = { q \in Procs : strataRank[q] = strataRank[p] }
               /\ Cardinality(cylGroup[p]) = nproc \div n_spcomms

\* C10 witness: a world with more than one replica per role has been laid out
C10_Witness == AllSplit /\ nproc \div n_spcomms >= 2 /\ n_spcomms >= 2

\* no distributed state exists on process p: no communicator was split, no opt or
\* communicator object built, no window opened, no collective entered, no lifecycle
\* call made, and the instance is not marked as run
NothingCreated(p) ==
    /\ pos[p] = 0 /\ log[p] = <<>>
    /\ fullColl[p] = 0 /\ strataColl[p] = 0 /\ cylColl[p] = 0
    /\ strataGroup[p] = {} /\ strataRank[p] = -1
    /\ cylGroup[p] = {} /\ cylRank[p] = -1
    /\ win[p] = "none" /\ ~flag[p]
    /\ ~ran[p] /\ result[p] = "unset"

\* C11: when the world size is not a multiple of the number of roles (as for 6
\* processes and 4 roles), no process gets past the count check: whatever a process
\* has done, nothing distributed exists on it, each call of run() ends in an error, and
\* with well-formed dictionaries that error is the count error on every process
C11_CountError ==
    /\ ~CountCheck(6, 4)
    /\ nproc % n_spcomms # 0 =>
           \A p \in Procs :
               /\ NothingCreated(p)
               /\ err[p] \in {"none", "keys", "count"}
               /\ err[p] = "count" => \A q \in Procs : err[q] \in {"none", "count"}

\* C11 witness: three processes for a hub and one spoke, and run() has failed with the
\* count error on all three
C11_Witness ==
    /\ nproc = 3 /\ n_spcomms = 2
    /\ \A p \in Procs : err[p] = "count"

\* a required key is missing from the hub dictionary or from a spoke dictionary of
\* process p
KeyMissing(p) ==
    \/ "hub_class" \notin hub_dict[p]
    \/ "opt_class" \notin hub_dict[p]
    \/ \E i \in DOMAIN spoke_dicts[p] :
           "spoke_class" \notin spoke_dicts[p][i] \/ "opt_class" \notin spoke_dicts[p][i]

\* C12, state part: a process on which run() failed with the key error holds no
\* distributed state
C12_KeysInv == \A p \in Procs : err[p] = "keys" => NothingCreated(p)

\* C12, step part: a process that has not yet called run() and whose dictionaries lack
\* a required key either stays as it is or fails with the key error
C12_KeysStep ==
    \A p \in Procs :
        (pos[p] = 0 /\ err[p] = "none" /\ ~ran[p] /\ KeyMissing(p))
            => /\ err'[p] \in {"none", "keys"}
               /\ NothingCreated(p)'

\* C12: a hub dictionary without 'hub_class' or 'opt_class', or a spoke dictionary
\* without 'spoke_class' or 'opt_class', makes run() fail before any distributed state
\* is created
C12_KeyError == [](C12_KeysInv) /\ [][C12_KeysStep]_vars

\* C12 witness: the hub dictionary and the first spoke dictionary are complete, the
\* second spoke dictionary lacks a key, and run() has failed with the key error
C12_Witness ==
    \E p \in Procs :
        /\ err[p] = "keys"
        /\ "hub_class" \in hub_dict[p] /\ "opt_class" \in hub_dict[p]
        /\ Len(spoke_dicts[p]) = 2
        /\ SpokeKeysOk(spoke_dicts[p][1]) /\ ~SpokeKeysOk(spoke_dicts[p][2])

\* everything but the record of the queries
NonQueryVars ==
    <<spcomm_dict, svars, cvars, tvars, last_ib_idx, nproc, hub_dict, spoke_dicts, pos, sub, ran, err, fullColl,
      strataColl, cylColl, strataGroup, strataRank, cylGroup, cylRank, win, flag, seen,
      toRead, log, result>>

\* C13, state part: a query recorded with an outcome other than the error was made on
\* an instance whose run() has completed
C13_QueryInv ==
    lastq # <<>> => (lastq[3] # "error" => ran[lastq[1]])

\* C13, step part: a query made on an instance whose run() has not completed ends in
\* the error, enters no collective and leaves every part of the state as it was
C13_QueryStep ==
    \A p \in Procs : \A q \in Queries :
        (lastq' # lastq /\ lastq'[1] = p /\ lastq'[2] = q /\ ~ran[p])
            => (lastq'[3] = "error" /\ UNCHANGED NonQueryVars)

\* C13: on_hub, write_first_stage_solution, write_tree_solution, local_nonant_cache and
\* the two bound values fail with an error when queried before run() has completed,
\* and the failed query changes no state and makes no collective call
C13_QueryBeforeRun == [](C13_QueryInv) /\ [][C13_QueryStep]_vars

\* C13 witness: a solution writer has failed on a process whose run() was aborted,
\* while another process is inside a collective of its own run()
C13_Witness ==
    /\ lastq # <<>>
    /\ lastq[2] = "write_tree_solution" /\ lastq[3] = "error"
    /\ ~ran[lastq[1]] /\ err[lastq[1]] = "main"
    /\ \E o \in Procs : sub[o] = "wait"

\* the updates that carry an inner bound
InnerUpdates == { i \in DOMAIN updates : updates[i][2] # <<>> }

\* the best of the inner bounds reported so far: the minimum, or the maximum when
\* maximizing
ExtremeInner ==
    CHOOSE v \in { updates[i][2][1] : i \in InnerUpdates } :
        \A i \in InnerUpdates :
            IF sense = "min" THEN v <= updates[i][2][1] ELSE v >= updates[i][2][1]

\* the first update that reported the best inner bound
FirstExtreme ==
    CHOOSE i \in InnerUpdates :
        /\ updates[i][2][1] = ExtremeInner
        /\ \A j \in InnerUpdates : updates[j][2][1] = ExtremeInner => i <= j

\* spoke A (1) reports inner bounds 10, 8, 8 and spoke B (2) reports 9, 9, 7, one each
\* per round
ExampleRounds ==
    <<<<1, <<10>>, <<>>>>, <<2, <<9>>, <<>>>>,
      <<1, <<8>>, <<>>>>, <<2, <<9>>, <<>>>>,
      <<1, <<8>>, <<>>>>, <<2, <<7>>, <<>>>>>>

\* best_inner() after the first n updates of the example, minimizing
ExampleBest(n) ==
    LET t == ApplyAll("min", EmptyTracker, SubSeq(ExampleRounds, 1, n)) IN <<t.inner, t.idx>>

\* C19: after any sequence of updates best_inner() is the minimum (the maximum when
\* maximizing) of the inner bounds reported, attributed to the first spoke that reported
\* that value; absent bounds are ignored; and for A reporting 10, 8, 8 and B reporting
\* 9, 9, 7 the best after each round is 9 (B), 8 (A), 7 (B)
C19_BestInner ==
    /\ InnerUpdates = {} => (BestInnerBound = <<>> /\ last_ib_idx[0] = <<>>)
    /\ InnerUpdates # {} =>
           /\ BestInnerBound = <<ExtremeInner>>
           /\ last_ib_idx[0] = <<updates[FirstExtreme][1]>>
    /\ ExampleBest(2) = << <<9>>, <<2>> >>
    /\ ExampleBest(4) = << <<8>>, <<1>> >>
    /\ ExampleBest(6) = << <<7>>, <<2>> >>

\* C19 witness: two spokes have reported the same best value, another update carried a
\* worse bound, and the earlier of the two spokes holds the attribution
C19_Witness ==
    /\ Len(updates) = 3
    /\ \E i, j \in InnerUpdates :
           /\ i < j /\ updates[i][1] # updates[j][1]
           /\ updates[i][2] = BestInnerBound /\ updates[j][2] = BestInnerBound
           /\ last_ib_idx[0] = <<updates[i][1]>>
    /\ \E i \in InnerUpdates : updates[i][2] # BestInnerBound

\* C14: every record a poll returned with generation G holds exactly the payload and
\* the bound fields written by the publish that produced generation G of that window
C14_NoTear ==
    \A i \in DOMAIN consumed :
        /\ consumed[i][2] \in DOMAIN pubs[consumed[i][1]]
        /\ <<consumed[i][3], consumed[i][4]>> = pubs[consumed[i][1]][consumed[i][2]]

\* the generations the hub consumed from window s, in order
RECURSIVE GensOf(_, _)
GensOf(cs, s) ==
    IF cs = <<>> THEN <<>>
    ELSE IF cs[1][1] = s THEN <<cs[1][2]>> \o GensOf(Tail(cs), s)
    ELSE GensOf(Tail(cs), s)

\* C15, state part: the generations the hub consumed from one spoke are strictly
\* increasing, the last of them being the one it remembers for that spoke
C15_GensInv ==
    \A s \in Windows :
        LET g == GensOf(consumed, s) IN
        /\ \A i, j \in DOMAIN g : i < j => g[i] < g[j]
        /\ lastgen[s] = IF g = <<>> THEN 0 ELSE g[Len(g)]

\* C15, step part: a poll that finds the generation it consumed last returns "no
\* update": it reads nothing further and the hub consumes nothing
C15_GensStep ==
    \A s \in Windows :
        (rpoll.pc = 0 /\ wmem[s].gen = lastgen[s] /\ wmem'[s].gen = lastgen[s])
            => (rpoll'.pc = 0 \/ rpoll'.s # s) /\ GensOf(consumed', s) = GensOf(consumed, s)

\* C15: the hub never acts twice on the same generation of a spoke's window
C15_NoRepeat == [](C15_GensInv) /\ [][C15_GensStep]_vars

\* C15 witness: the hub has consumed two generations of one spoke's window and now
\* finds that window's generation unchanged
C15_Witness ==
    \E s \in Windows :
        /\ Len(GensOf(consumed, s)) = 2
        /\ rpoll.pc = 0 /\ wmem[s].gen = lastgen[s]

\* C16, state part: whatever the hub and the other spokes are doing, a spoke may start
\* a publish and every later write of a publish in progress can be made at once;
\* whatever the spokes are doing, the hub may start a poll and every later read of a
\* poll in progress can be made at once
C16_NeverWaits ==
    /\ \A p \in Procs :
           /\ (strataRank[p] >= 1 /\ err[p] = "none" /\ wpc[p] = 0
                  /\ wmem[WindowOf(p)].gen < MaxGen) => ENABLED PublishCall(p)
           /\ wpc[p] = 1 => ENABLED (\E rec \in ChanRecords : PublishBounds(p, rec))
           /\ wpc[p] = 2 => ENABLED PublishCommit(p)
    /\ (rpoll.pc = 0 /\ err[0] = "none") => \A s \in SpokesOf(0) : ENABLED PollCall(0, s)
    /\ rpoll.pc = 1 => ENABLED PollPayload(0)
    /\ rpoll.pc = 2 => ENABLED PollBounds(0)
    /\ rpoll.pc = 3 => ENABLED PollRecheck(0)

\* C16, step part: a publish is three writes and a poll at most four reads: every step
\* of one moves it on by one or ends it
C16_Bounded ==
    /\ \A p \in Procs : wpc'[p] \in {wpc[p], (wpc[p] + 1) % 3}
    /\ rpoll'.pc \in {rpoll.pc, rpoll.pc + 1, 0}
    /\ rpoll.pc = 3 => rpoll'.pc \in {3, 0}

\* C16: publish and poll are non-blocking: each completes in a bounded number of steps
\* of its own process, none of which ever waits for another process
C16_NonBlocking == [](C16_NeverWaits) /\ [][C16_Bounded]_vars

\* C16 witness: a spoke has published twice to a hub that never polled, and the other
\* spoke is in the middle of a publish
C16_Witness ==
    /\ consumed = <<>> /\ rpoll.pc = 0
    /\ \E s, t \in Windows : wmem[s].gen = 2 /\ wpc[s] = 0 /\ wpc[t] = 2

\* the best of the outer bounds given to the tracker: the maximum when minimizing
OuterUpdates == { i \in DOMAIN updates : updates[i][3] # <<>> }
ExtremeOuter ==
    CHOOSE v \in { updates[i][3][1] : i \in OuterUpdates } :
        \A i \in OuterUpdates :
            IF sense = "min" THEN v >= updates[i][3][1] ELSE v <= updates[i][3][1]

\* positions at which the publishes of window s carry bound fields b
PublishesOf(s, b) == { k \in DOMAIN pubs[s] : pubs[s][k][2] = b }

\* C20: in whatever order the hub polls, and however the polls interleave with the
\* publishes, the tracker holds the result of applying the consumed records one after
\* the other; every consumed record carries bound fields its spoke published, the
\* records of one spoke being consumed in the order of its publishes; and the result
\* does not depend on the order: the best inner and outer bounds are the extremes of
\* the consumed bounds and the attributed spoke is one that reported the best inner bound
C20_Commute ==
    /\ Tracker = ApplyAll(sense, EmptyTracker, updates)
    /\ Len(updates) = Len(consumed)
    /\ \A i \in DOMAIN consumed :
           /\ updates[i] = <<consumed[i][1], consumed[i][4][1], consumed[i][4][2]>>
           /\ PublishesOf(consumed[i][1], consumed[i][4]) # {}
    /\ \A i, j \in DOMAIN consumed :
           (i < j /\ consumed[i][1] = consumed[j][1]) =>
               \E k \in PublishesOf(consumed[i][1], consumed[i][4]) :
                   \E m \in PublishesOf(consumed[j][1], consumed[j][4]) : k <= m
    /\ BestInnerBound = IF InnerUpdates = {} THEN <<>> ELSE <<ExtremeInner>>
    /\ BestOuterBound = IF OuterUpdates = {} THEN <<>> ELSE <<ExtremeOuter>>
    /\ InnerUpdates # {} =>
           \E i \in InnerUpdates :
               updates[i][2] = BestInnerBound /\ last_ib_idx[0] = <<updates[i][1]>>

\* C20 witness: both spokes published the same best inner bound, the hub polled spoke 2
\* ahead of spoke 1 and attributes the bound to spoke 2
C20_Witness ==
    /\ Len(consumed) >= 3
    /\ consumed[1][1] = 2 /\ consumed[2][1] = 1
    /\ consumed[1][4][1] = <<8>> /\ consumed[2][4][1] = <<8>>
    /\ BestInnerBound = <<8>> /\ last_ib_idx[0] = <<2>>
    /\ BestOuterBound # <<>>


\* C17: every window has a single writer.  The payload and bound region of a spoke's
\* window is written only by that spoke's process of cylinder rank 0, never by the hub,
\* by another spoke or by another process of the spoke, and the termination flag of a
\* window is written only by the hub's process of cylinder rank 0.
C17_WritesInv ==
    \A t \in writes :
        IF t[3] = "data"
        THEN t[1] = t[2] /\ cylRank[t[1]] = 0 /\ strataRank[t[1]] >= 1
        ELSE strataRank[t[1]] = 0 /\ cylRank[t[1]] = 0 /\ strataRank[t[2]] >= 1

C17_WritesStep ==
    /\ \A w \in DOMAIN wmem :
           wmem'[w] # wmem[w]
               => (lastop'[1] = w /\ lastop'[2] = "publish"
                   /\ cylRank[w] = 0 /\ strataRank[w] >= 1)
    /\ \A w \in DOMAIN flag :
           flag'[w] # flag[w]
               => (lastop'[2] = "signal_terminate"
                   /\ strataRank[lastop'[1]] = 0 /\ cylRank[lastop'[1]] = 0)

C17_SingleWriter == []C17_WritesInv /\ [][C17_WritesStep]_vars

\* both spokes have written their windows, the hub has signalled termination, and a
\* process of spoke 1 that is not its designated writer has just called publish
C17_Witness ==
    /\ {<<1, 1, "data">>, <<2, 2, "data">>, <<0, 1, "flag">>, <<0, 2, "flag">>}
           \subseteq writes
    /\ Len(pubs[1]) = 1 /\ wmem[2].gen = 1
    /\ lastop = <<LifeSpokes + 2, "publish", "open", "ok">>

\* C18: a publish, poll or free_windows call on a channel outside its open lifetime,
\* before make_windows or after free_windows, fails with the use-after-free error and
\* changes nothing; in particular a second free_windows is rejected, not a silent no-op.
C18_RejectedInv ==
    lastop # <<>> =>
        ((/\ lastop[2] \in {"publish", "poll", "free_windows"}
          /\ cylRank[lastop[1]] = 0
          /\ lastop[3] # "open")
             => (lastop[4] = "error" /\ err[lastop[1]] = "use_after_free"))

C18_RejectedStep ==
    (/\ lastop' # lastop
     /\ lastop'[2] \in {"publish", "poll", "free_windows"}
     /\ cylRank[lastop'[1]] = 0
     /\ lastop'[3] # "open")
        => (/\ err[lastop'[1]] = "none" /\ err'[lastop'[1]] = "use_after_free"
            /\ UNCHANGED <<win, flag, wmem, wpc, lastgen, pubs, consumed, writes, tvars>>)

C18_UseAfterFree == []C18_RejectedInv /\ [][C18_RejectedStep]_vars

\* spoke 1 published before make_windows, spoke 2 used its channel after free_windows,
\* and the hub has just called free_windows a second time: all three were rejected
C18_Witness ==
    /\ win[1] = "none" /\ err[1] = "use_after_free"
    /\ win[2] = "freed" /\ err[2] = "use_after_free"
    /\ lastop = <<0, "free_windows", "freed", "error">>


\* every reported inner bound is at least every reported outer bound
InnerAboveOuter(us) ==
    \A i, j \in DOMAIN us :
        (us[i][2] # <<>> /\ us[j][3] # <<>>) => us[i][2][1] >= us[j][3][1]

\* C21: gap() is best_inner minus best_outer.  When minimizing, with every reported
\* inner bound at least every reported outer bound, the gap is never negative, is zero
\* exactly when the two best bounds meet, and never increases as updates arrive: once
\* finite it stays finite and only shrinks.
C21_GapInv ==
    (sense = "min" /\ InnerAboveOuter(updates) /\ Gap(sense, Tracker) # <<>>)
        => (/\ Gap(sense, Tracker)[1] = BestInnerBound[1] - BestOuterBound[1]
            /\ Gap(sense, Tracker)[1] >= 0)

C21_GapStep ==
    (sense = "min" /\ InnerAboveOuter(updates') /\ Gap(sense, Tracker) # <<>>)
        => (/\ Gap(sense, Tracker') # <<>>
            /\ Gap(sense, Tracker')[1] <= Gap(sense, Tracker)[1])

C21_Gap == []C21_GapInv /\ [][C21_GapStep]_vars

\* minimizing, the gap was 9 - 7 = 2 after the first update and has closed to 0
C21_Witness ==
    /\ sense = "min"
    /\ Len(updates) = MaxUpdates
    /\ updates[1][2] = <<9>> /\ updates[1][3] = <<7>>
    /\ Gap(sense, Tracker) = <<0>>


\* the set_instance calls made for subproblem k that raised
FailedCalls(k) == { i \in DOMAIN calls[k] : calls[k][i] = "fail" }

\* C22: set_instance_retry always terminates.  It returns as soon as one set_instance
\* call succeeds; after the first failed attempt it retries at most 5 times, with one
\* sleep before each retry; and when the last permitted attempt fails too it raises
\* instead of retrying again.
C22_RetryInv ==
    \A k \in Subproblems :
        LET n == Len(calls[k]) IN
        /\ n <= MAX_ACQUIRE_LICENSE_RETRY_ATTEMPTS + 1
        /\ \A i \in 1 .. (n - 1) : calls[k][i] = "fail"
        /\ (n > 0 /\ calls[k][n] = "ok")
               => (/\ sleeps[k] = n - 1
                   /\ spc \in {"create", "attempt", "sleep", "failed"} => sidx > k)
        /\ (n > 0 /\ calls[k][n] = "fail")
               => (/\ sidx = k
                   /\ IF n = MAX_ACQUIRE_LICENSE_RETRY_ATTEMPTS + 1
                      THEN spc = "failed" /\ sleeps[k] = n - 1
                      ELSE spc \in {"sleep", "attempt"} /\ sleeps[k] = n)
        /\ (spc = "failed" /\ sidx = k)
               => Cardinality(FailedCalls(k)) = MAX_ACQUIRE_LICENSE_RETRY_ATTEMPTS + 1

C22_RetryEnds ==
    (spc \in {"attempt", "sleep"}) ~> (spc \in {"create", "failed"})

C22_RetryTerminates == []C22_RetryInv /\ C22_RetryEnds

\* the first subproblem got its instance at the second retry, the second one never:
\* six calls failed, five sleeps were made, and set_instance_retry raised
C22_Witness ==
    /\ spc = "failed" /\ sidx = 2
    /\ calls[1] = <<"fail", "fail", "ok">> /\ sleeps[1] = 2
    /\ Len(calls[2]) = 6 /\ sleeps[2] = 5

\* C23: a failed subproblem solve, by a solver error or by results that are not good
\* enough, marks the subproblem scenario_feasible = False; solve_one ends with an
\* exception only when need_solution is True, and with need_solution False it returns
\* normally after marking the failure.
C23_FailedSolve ==
    (sout # <<>> /\ sout[3] \in {"error", "not_good"})
        => (/\ scenario_feasible[sout[1]] = "False"
            /\ sout[4] = "raised" => sout[2]
            /\ ~sout[2] => sout[4] = "returned")


\* C24, state part: a solution writer that has returned on a process wrote exactly
\* when the process's strata_rank is the last_ib_idx held by global rank 0, and so
\* wrote nothing when that last_ib_idx is None
C24_WinnerInv ==
    (lastq # <<>> /\ lastq[3] \in {"written", "skipped"})
        => (/\ lastq[2] \in Writers
            /\ ran[lastq[1]]
            /\ lastq[3] = "written"
                   <=> (/\ last_ib_idx[0] # <<>>
                        /\ strataRank[lastq[1]] = last_ib_idx[0][1]))

\* C24, step part: once a run has completed on any process the index held by global
\* rank 0 no longer changes, so that every process is given the same index
C24_WinnerStep ==
    (\E p \in Procs : ran[p]) => last_ib_idx'[0] = last_ib_idx[0]

\* C24: after a completed run, a solution writer is invoked on exactly the processes
\* whose strata_rank equals the last_ib_idx held by global rank 0; all processes agree
\* on that index, no process of another role writes, and with last_ib_idx None no
\* process writes.
C24_Winner == []C24_WinnerInv /\ [][C24_WinnerStep]_vars

\* the hub took its best inner bound from spoke 1, and the spoke's process has written
C24_Witness ==
    /\ lastq = <<1, "write_first_stage_solution", "written">>
    /\ last_ib_idx[0] = <<1>>
    /\ strataRank[1] = 1 /\ ran[0] /\ ran[1]


\* the opt and spcomm objects of p have been built
IsBuilt(p) == Called(p, "build")

\* C25: the hub role is always played by the processes with strata_rank 0.  A process
\* with strata_rank r is built from entry r of [hub_dict] + list_of_spoke_dict: from
\* hub_dict when r = 0, from spoke dictionary r - 1 (the r-th of the list) when r >= 1,
\* for every world size that is a multiple of the role count; and the processes that
\* make the hub-only calls are the ones built from hub_dict.
C25_HubFirst ==
    \A p \in Procs :
        /\ IsBuilt(p) =>
               /\ nproc % n_spcomms = 0
               /\ strataRank[p] = 0 <=> spcomm_dict[p] = <<"hub", 0>>
               /\ strataRank[p] >= 1 <=> spcomm_dict[p] = <<"spoke", strataRank[p]>>
        /\ ~IsBuilt(p) => spcomm_dict[p] = <<>>
        /\ (Called(p, "setup_hub") \/ Called(p, "send_terminate"))
               => spcomm_dict[p] = <<"hub", 0>>

\* in a world of two replicas of a hub and a spoke, every process is built: global
\* ranks 0 and 2 from hub_dict, 1 and 3 from the spoke's dict
C25_Witness ==
    /\ nproc = 4 /\ n_spcomms = 2
    /\ \A p \in Procs : IsBuilt(p)
    /\ spcomm_dict[2] = <<"hub", 0>> /\ spcomm_dict[3] = <<"spoke", 1>>


\* the processes whose global rank divided by the role count is that of p, and those
\* whose global rank modulo the role count is that of p
SameQuotient(p) == { q \in Procs : q \div n_spcomms = p \div n_spcomms }
SameRemainder(p) == { q \in Procs : q % n_spcomms = p % n_spcomms }

\* C26 as stated: the cylinder group comes from the Split on colour
\* global_rank // role_count and the strata group from the Split on colour
\* global_rank % role_count
C26_ColoursAsStated ==
    \A p \in Procs :
        /\ cylRank[p] >= 0 => cylGroup[p] = SameQuotient(p)
        /\ strataRank[p] >= 0 => strataGroup[p] = SameRemainder(p)

\* C26 amended: the strata group, one process per role, comes from the Split on colour
\* global_rank // role_count, and the cylinder group, the processes of one role, from
\* the Split on colour global_rank % role_count
C26_Colours ==
    \A p \in Procs :
        /\ strataRank[p] >= 0 =>
               /\ strataGroup[p] = SameQuotient(p)
               /\ \A r \in 0 .. (n_spcomms - 1) :
                      Cardinality({ q \in strataGroup[p] : q % n_spcomms = r }) = 1
        /\ cylRank[p] >= 0 =>
               /\ cylGroup[p] = SameRemainder(p)
               /\ \A q \in cylGroup[p] : strataRank[q] >= 0 => strataRank[q] = strataRank[p]

\* two roles with two replicas each: ranks 0 and 1 form a strata group, ranks 0 and 2
\* the hub's cylinder group
C26_Witness ==
    /\ AllSplit /\ nproc = 4 /\ n_spcomms = 2
    /\ strataGroup[0] = {0, 1} /\ cylGroup[0] = {0, 2}


\* process p is inside a world barrier of run()
AtWorldBarrier(p) == Step(p) = "world_barrier" /\ sub[p] = "wait"

\* main() raised on process p: the exception left run(), which made none of its later
\* calls and did not mark the instance as run
MainAborted(p) ==
    err[p] = "main" =>
        /\ pos[p] = 0 /\ ~ran[p] /\ result[p] = "unset"
        /\ \A c \in {"send_terminate", "finalize", "cylinder_barrier", "world_barrier",
                     "hub_finalize", "free_windows", "store"} : ~Called(p, c)

\* C27 as stated: an exception raised inside main() propagates out of run() on that
\* process, which executes none of finalize, the barriers, hub_finalize or
\* free_windows, and every other process blocks at the world barrier
C27_AllAtWorldBarrier ==
    /\ [](\A p \in Procs : MainAborted(p))
    /\ \A p \in ProcIds :
           (p \in Procs /\ err[p] = "main")
               ~> (\A q \in Procs \ {p} : err[q] = "none" => AtWorldBarrier(q))

\* C27 amended: an exception raised inside main() propagates out of run() on that
\* process, which executes none of finalize, the barriers, hub_finalize or
\* free_windows; no other process ever returns from run(): a process of the failed
\* process's cylinder group gets no further than the cylinder barrier, and no process
\* gets further than the first world barrier (a spoke whose hub failed may stay in
\* main()).
C27_MainException ==
    \A p \in Procs :
        /\ MainAborted(p)
        /\ err[p] = "main" =>
               \A q \in Procs :
                   /\ ~ran[q]
                   /\ ~Called(q, "hub_finalize") /\ ~Called(q, "free_windows")
                   /\ q \in cylGroup[p] => ~Called(q, "world_barrier")

\* the hub of the first strata group raised in main(): its replica waits in the
\* cylinder barrier, its spoke is still in main() without a termination signal, and
\* the spoke's replica waits in the cylinder barrier for it
C27_Witness ==
    /\ nproc = 4 /\ n_spcomms = 2
    /\ err[0] = "main"
    /\ Step(2) = "cylinder_barrier" /\ sub[2] = "wait"
    /\ Step(1) = "main" /\ ~flag[1]
    /\ Step(3) = "cylinder_barrier" /\ sub[3] = "wait"


\* C28, state part: setup_hub is called at most once, only on a process of
\* strata_rank 0, and has been called once on every such process that entered main()
C28_SetupInv ==
    \A p \in Procs :
        /\ Count(p, "setup_hub") <= 1
        /\ Called(p, "setup_hub") => strataRank[p] = 0
        /\ (Called(p, "main") /\ strataRank[p] = 0) => Count(p, "setup_hub") = 1
        /\ Called(p, "main") => Count(p, "make_windows") = 1

\* C28, step part: the step that calls setup_hub, and the step that enters main(), are
\* taken by a process whose make_windows has returned; setup_hub comes before main()
C28_SetupStep ==
    \A p \in Procs :
        /\ (Called(p, "setup_hub")' /\ ~Called(p, "setup_hub"))
               => (/\ strataRank[p] = 0
                   /\ Called(p, "make_windows") /\ Step(p) = "setup_hub"
                   /\ win[p] = "open"
                   /\ ~Called(p, "main"))
        /\ (Called(p, "main")' /\ ~Called(p, "main"))
               => (/\ Called(p, "make_windows") /\ Step(p) = "main"
                   /\ win[p] = "open"
                   /\ strataRank[p] = 0 <=> Called(p, "setup_hub"))

\* C28: setup_hub is called exactly once per run on each hub process, never on a spoke
\* process, after that process's make_windows and before its main(); every process
\* enters main() only after its own make_windows has returned.
C28_SetupHub == []C28_SetupInv /\ [][C28_SetupStep]_vars

\* a hub and a spoke are both inside main(); only the hub has called setup_hub
C28_Witness ==
    /\ nproc = 2 /\ n_spcomms = 2
    /\ Called(0, "main") /\ Called(1, "main")
    /\ Count(0, "setup_hub") = 1 /\ ~Called(1, "setup_hub")
    /\ Step(0) = "main" /\ Step(1) = "main"


\* the exceptions that end a run() before its last step
Aborts == {"keys", "count", "main", "finalize", "use_after_free"}

\* C29, state part: _ran is true exactly on the instances whose run() has returned
\* after every lifecycle call, through free_windows and the closing world barrier; an
\* instance whose run() was aborted has _ran false, and every result query on it fails
C29_RanInv ==
    \A p \in Procs :
        /\ ran[p] <=> (/\ Count(p, "world_barrier") = 2
                       /\ Called(p, "free_windows")
                       /\ pos[p] = 0)
        /\ ran[p] => log[p] = CallsOf(p)
        /\ err[p] \in Aborts => (~ran[p] /\ \A q \in Queries : QueryFails(p, q))

\* C29, step part: _ran is never reset, and is set only by the run() that has returned
\* from the closing world barrier
C29_RanStep ==
    \A p \in Procs :
        /\ ran[p] => ran'[p]
        /\ (ran'[p] /\ ~ran[p])
               => (Step(p) = "store" /\ Count(p, "world_barrier") = 2 /\ err[p] = "none")

\* C29: the _ran flag of a WheelSpinner is true exactly when a run() call on it has
\* executed every lifecycle step through the closing world barrier; a run() that
\* aborts with an exception at any earlier point leaves _ran false, so the result
\* queries keep failing afterwards.
C29_RanFlag == []C29_RanInv /\ [][C29_RanStep]_vars

\* a query has just failed on an instance whose run() was aborted by an exception in
\* finalize, after main() had returned
C29_Witness ==
    /\ lastq # <<>>
    /\ lastq[3] = "error" /\ lastq[2] = "on_hub"
    /\ err[lastq[1]] = "finalize" /\ ~ran[lastq[1]]
    /\ MainReturned(lastq[1])


\* C30: after a completed run, BestInnerBound and BestOuterBound of the WheelSpinner
\* hold the communicator's tracked values on the processes with strata_rank 0 and are
\* None on every process with strata_rank >= 1; before that they are not set, and no
\* read of them on a spoke process ever gives a bound value.
C30_StoredBounds ==
    /\ \A p \in Procs :
           /\ ran[p] => (/\ strataRank[p] = 0 => result[p] = "bounds"
                         /\ strataRank[p] >= 1 => result[p] = "None")
           /\ ~ran[p] => result[p] = "unset"
           /\ strataRank[p] # 0 => result[p] # "bounds"
    /\ (lastq # <<>> /\ lastq[2] \in BoundAttributes)
           => (/\ lastq[3] \in {"error", "bounds", "None"}
               /\ lastq[3] = "bounds" => (ran[lastq[1]] /\ strataRank[lastq[1]] = 0)
               /\ lastq[3] = "None" => (ran[lastq[1]] /\ strataRank[lastq[1]] >= 1))

\* a hub and a spoke have completed run(); the hub holds the bounds, and a read of
\* BestInnerBound on the spoke has just given None
C30_Witness ==
    /\ nproc = 2 /\ n_spcomms = 2
    /\ ran[0] /\ ran[1]
    /\ result[0] = "bounds"
    /\ lastq = <<1, "BestInnerBound", "None">>

\* solve_one is about to be called on subproblem sidx
AtSolveOne == spc = "loop" /\ sidx <= MaxSubproblems

\* the step is a solve_one call that got good results and did not raise while
\* loading them
SolvedStep == AtSolveOne /\ results' # <<>> /\ ~(sout'[3] = "load" /\ sout'[4] = "raised")

\* C31, step part: a solve_one call whose solve succeeded marks the subproblem
\* scenario_feasible = True and stores the solver's lower bound as outer_bound and
\* its upper bound as inner_bound when minimizing, the other way round when
\* maximizing; any other solve_one call leaves both bounds as they were; the sense
\* never changes
C31_BoundsStep ==
    /\ is_minimizing' = is_minimizing
    /\ SolvedStep =>
          /\ scenario_feasible'[sidx] = "True"
          /\ outer_bound'[sidx] = << results'[IF is_minimizing THEN 1 ELSE 2] >>
          /\ inner_bound'[sidx] = << results'[IF is_minimizing THEN 2 ELSE 1] >>
    /\ (AtSolveOne /\ ~SolvedStep) =>
          /\ outer_bound'[sidx] = outer_bound[sidx]
          /\ inner_bound'[sidx] = inner_bound[sidx]
    /\ \A k \in Subproblems : (~AtSolveOne \/ k # sidx) =>
          /\ outer_bound'[k] = outer_bound[k]
          /\ inner_bound'[k] = inner_bound[k]

\* C31, state part: a subproblem has bounds only once a solve of it has succeeded,
\* both or none, and the outer bound is the smaller one when minimizing, the larger
\* one when maximizing (the solvers here report Lower_bound < Upper_bound)
C31_BoundsInv ==
    \A k \in Subproblems :
        /\ (outer_bound[k] = <<>>) <=> (inner_bound[k] = <<>>)
        /\ outer_bound[k] # <<>> =>
              /\ <<outer_bound[k][1], inner_bound[k][1]>> \in
                    (IF is_minimizing THEN ResultBounds
                     ELSE { <<rb[2], rb[1]>> : rb \in ResultBounds })
              /\ scenario_feasible[k] \in {"True", "False"}

\* C31: after a successful solve in solve_one the subproblem is feasible and its
\* bounds follow the fixed optimization sense (minimizing: outer = lower bound,
\* inner = upper bound; maximizing: the other way round); after a failed solve
\* neither bound is overwritten
C31_Bounds == []C31_BoundsInv /\ [][C31_BoundsStep]_vars

\* maximizing: subproblem 1 took the bounds <<1, 2>> in the first solve loop (outer 2,
\* inner 1) and its solve has just failed in the second loop, leaving them
C31_Witness ==
    /\ ~is_minimizing /\ loops = 2
    /\ sout = <<1, FALSE, "not_good", "returned">>
    /\ scenario_feasible[1] = "False"
    /\ outer_bound[1] = <<2>> /\ inner_bound[1] = <<1>>

\* Var v, the ci-th of a scenario with zero-probability indices zp, is stale, not
\* fixed and has no usable value: None on a zero-probability Var, or a value float()
\* cannot convert (None is the only such value a Var holds here)
NoUsableValue(v, zp, ci) ==
    /\ ~v.fixed /\ v.stale
    /\ \/ (ci \in zp /\ v.value = None)
       \/ v.value \notin {<<0>>, SolutionValue, NaN}

\* the step is a solve_one call that ends with the error of _check_staleness
StalenessRaised == AtSolveOne /\ sout'[3] \in {"stale", "zero_prob_stale"}

\* C32: solve_one ends with the staleness error exactly when its solve has just marked
\* the subproblem feasible and some scenario of the subproblem then has a stale
\* non-anticipative Var that is not fixed and has no usable value; the error is fatal
\* (solve_one raises and solve_loop ends).  So an infeasible scenario is not checked,
\* and a stale Var that is fixed or has a numeric value raises nothing
C32_StalenessStep ==
    /\ StalenessRaised <=>
          /\ AtSolveOne /\ SolvedStep /\ scenario_feasible'[sidx] = "True"
          /\ \E sn \in ScenariosOf(sidx) : \E ci \in DOMAIN nonants'[sn] :
                 NoUsableValue(nonants'[sn][ci], zero_prob[sn], ci)
    /\ StalenessRaised => (sout'[4] = "raised" /\ spc' = "idle")

C33_BundleStep ==
    (AtSolveOne /\ bundling /\ sout'[4] = "returned") =>
        /\ scenario_feasible'[sidx] \in {"True", "False"}
        /\ scenario_feasible'[sidx] = "True" <=> SolvedStep
        /\ \A sn \in EFScenarioNames(sidx) : local_feasible'[sn] = scenario_feasible'[sidx]
        /\ \A sn \in LocalScenarios \ EFScenarioNames(sidx) :
               local_feasible'[sn] = local_feasible[sn]

C33_Bundle == [][C33_BundleStep]_vars

\* second solve loop: the bundle of scenarios 1 and 3, feasible after the first loop,
\* has just failed and returned, and both scenarios are marked infeasible; the bundle
\* of scenario 2 is still feasible, and so is scenario 2
C33_Witness ==
    /\ bundling /\ loops = 2
    /\ sout = <<1, FALSE, "not_good", "returned">>
    /\ outer_bound[1] # <<>>
    /\ scenario_feasible[1] = "False"
    /\ local_feasible[1] = "False" /\ local_feasible[3] = "False"
    /\ scenario_feasible[2] = "True" /\ local_feasible[2] = "True"

\* the hooks and solves of a solve_loop call that returns, in order
HookOrder ==
    [i \in 1 .. (3 * MaxSubproblems + 2) |->
        IF i = 1 THEN <<"pre_solve_loop">>
        ELSE IF i = 3 * MaxSubproblems + 2 THEN <<"post_solve_loop">>
        ELSE << <<"pre_solve", "solve", "post_solve">>[((i - 2) % 3) + 1],
                ((i - 2) \div 3) + 1 >>]

\* C37: with an extension attached, the hooks and solves of a solve_loop call are
\* pre_solve_loop once, then pre_solve, the solve and post_solve for each subproblem
\* in turn, then post_solve_loop once; a call that ended with a solve raising for
\* subproblem k stops right after that solve, without post_solve for k and without
\* post_solve_loop.  Without an extension no hook is called
C37_HookOrder ==
    /\ ~extensions => hooks = <<>>
    /\ (extensions /\ loops > 0) =>
          /\ IsPrefix(hooks, HookOrder)
          /\ spc = "loop" => Len(hooks) = 3 * (sidx - 1) + 1
          /\ (spc = "idle" /\ sout # <<>> /\ sout[4] = "raised") =>
                 /\ Len(hooks) = 3 * (sout[1] - 1) + 3
                 /\ hooks[Len(hooks)] = <<"solve", sout[1]>>
          /\ (spc = "idle" /\ (sout = <<>> \/ sout[4] = "returned")) => hooks = HookOrder

\* a solve_loop call with an extension ended when the solve of subproblem 2 raised:
\* the last thing recorded is that solve
C37_Witness ==
    /\ extensions /\ spc = "idle" /\ sout # <<>>
    /\ sout[1] = 2 /\ sout[4] = "raised"
    /\ hooks = << <<"pre_solve_loop">>, <<"pre_solve", 1>>, <<"solve", 1>>,
                  <<"post_solve", 1>>, <<"pre_solve", 2>>, <<"solve", 2>> >>

\* the step is a call op on the non-anticipative variables that ended as how
NonantStep(op, how) == nops' = nops + 1 /\ nout'.op = op /\ nout'.how = how

\* the Vars of every local scenario have the values and fixedness of nn
SameVars(nn) ==
    \A sn \in LocalScenarios : \A ci \in DOMAIN nonants'[sn] :
        /\ nonants'[sn][ci].value = nn[sn][ci].value
        /\ nonants'[sn][ci].fixed = nn[sn][ci].fixed

\* C34: save and restore are a round trip: a _restore_nonants call made after
\* _save_nonants and then only _fix_nonants or _fix_root_nonants calls leaves every
\* non-anticipative Var of every local scenario with the value and the fixed status
\* it had when _save_nonants was called
C34_RoundTripStep == (NonantStep("restore", "ok") /\ nout.clean) => SameVars(nout.saved)

C34_RoundTrip == [][C34_RoundTripStep]_vars

\* the same round trip for the Vars that had a value when they were saved, with the
\* fixed status of all of them
C34_NumericStep ==
    (NonantStep("restore", "ok") /\ nout.clean) =>
        \A sn \in LocalScenarios : \A ci \in DOMAIN nonants'[sn] :
            /\ nonants'[sn][ci].fixed = nout.saved[sn][ci].fixed
            /\ nonants'[sn][ci].value =
                  (IF nout.saved[sn][ci].value = None THEN NaN
                   ELSE nout.saved[sn][ci].value)

C34_Numeric == [][C34_NumericStep]_vars

\* C35: a _restore_original_fixedness call that returns keeps the value of every
\* non-anticipative Var and gives it the fixed status _save_original_nonants
\* recorded; afterwards nonant_cache holds the current values and fixedness_cache
\* the original fixedness
C35_OriginalFixednessStep ==
    NonantStep("restore_original_fixedness", "ok") =>
        \A sn \in LocalScenarios : \A ci \in DOMAIN nonants[sn] :
            /\ nonants'[sn][ci].value = nonants[sn][ci].value
            /\ nonants'[sn][ci].fixed = original_fixedness[sn][ci]
            /\ nonant_cache'[sn][ci] = nonants'[sn][ci].value
            /\ fixedness_cache'[sn][ci] = original_fixedness[sn][ci]
            /\ original_fixedness'[sn][ci] = original_fixedness[sn][ci]

C35_OriginalFixedness == [][C35_OriginalFixednessStep]_vars

\* no non-anticipative Var of nn is fixed that was free when the SPOpt object was
\* constructed
OnlyInitiallyFixed(nn) ==
    \A sn \in LocalScenarios : \A ci \in DOMAIN nn[sn] :
        nn[sn][ci].fixed => <<sn, ci>> \in initial_fixed

\* C36, state part: _initial_fixed_varibles holds the Vars that are fixed at
\* construction, and the answer of the most recent _can_update_best_bound call is
\* True exactly when every Var that is fixed now is one of them
C36_CanUpdateInv ==
    /\ nops = 0 => \A sn \in LocalScenarios : \A ci \in DOMAIN nonants[sn] :
                       <<sn, ci>> \in initial_fixed <=> nonants[sn][ci].fixed
    /\ nout.op = "can_update" =>
          /\ nout.how \in {"True", "False"}
          /\ nout.how = "True" <=> OnlyInitiallyFixed(nonants)

\* C36, step part: _initial_fixed_varibles never changes; a _fix_nonants call that
\* fixes a Var that was free at construction leaves a state in which
\* _can_update_best_bound answers False, and a _restore_nonants call that restores a
\* fixedness saved when the answer was True leaves a state in which it answers True
C36_CanUpdateStep ==
    /\ initial_fixed' = initial_fixed
    /\ (/\ nops' = nops + 1 /\ nout'.op = "fix"
        /\ \E sn \in LocalScenarios : \E ci \in DOMAIN nonants[sn] :
               /\ <<sn, ci>> \notin initial_fixed
               /\ ~nonants[sn][ci].fixed /\ nonants'[sn][ci].fixed)
           => ~CanUpdateBestBound(nonants')
    /\ (/\ NonantStep("restore", "ok")
        /\ \A sn \in LocalScenarios : \A ci \in DOMAIN nonants[sn] :
               fixedness_cache[sn][ci] => <<sn, ci>> \in initial_fixed)
           => CanUpdateBestBound(nonants')
    /\ NonantStep("can_update", "True") => CanUpdateBestBound(nonants)
    /\ NonantStep("can_update", "False") => ~CanUpdateBestBound(nonants)

\* C36: _can_update_best_bound returns True exactly when every fixed
\* non-anticipative Var was already fixed when the SPOpt object was constructed:
\* False after _fix_nonants has fixed a Var that was free then, True again after
\* _restore_nonants has restored a fixedness saved before
C36_CanUpdate == []C36_CanUpdateInv /\ [][C36_CanUpdateStep]_vars

\* a Var that was free at construction has been fixed by _fix_nonants, and
\* _can_update_best_bound has just answered False
C36_Witness ==
    /\ nout.op = "can_update" /\ nout.how = "False"
    /\ <<1, 1>> \notin initial_fixed
    /\ nonants[1][1].fixed /\ nonants[1][1].value = <<3>>

\* the cache lacks the name of the j-th node of scenario sn, holds None for it, or
\* holds a vector whose length is not the node's number of Vars
Rejects(cache, sn, j) ==
    LET e == cache[node_list[sn][j].name] IN
    \/ e.kind = "missing"
    \/ e.kind = "None"
    \/ Len(e.vec) # node_list[sn][j].nlens

\* C38: a _fix_nonants call raises exactly when the cache is rejected for some node
\* of some local scenario; it raises at the first such scenario and node in the order
\* of its loops, with the error of the first test that fails (name, None, length);
\* the Vars of the scenarios and nodes before that one have been fixed by then
\* (surrogates apart), the others are untouched
C38_FixChecksStep ==
    (nops' = nops + 1 /\ nout'.op = "fix") =>
        LET first == nout'.at[1]
            cache == nout'.at[2]
            rejected == { a \in NodeVisits : Rejects(cache, a[1], a[2]) } IN
        /\ nout'.how = "ok" <=> rejected = {}
        /\ nout'.how = "ok" <=> first = <<>>
        /\ nout'.how # "ok" =>
              /\ first \in rejected
              /\ \A a \in rejected : a = first \/ Before(first, a)
              /\ LET e == cache[node_list[first[1]][first[2]].name] IN
                 nout'.how = (IF e.kind = "missing" THEN "missing"
                              ELSE IF e.kind = "None" THEN "empty" ELSE "length")
        /\ \A a \in NodeVisits :
              IF (first = <<>> \/ Before(a, first)) /\ a[2] \notin surrogate_vardatas
              THEN /\ nonants'[a[1]][a[2]].fixed
                   /\ nonants'[a[1]][a[2]].value \in {<<3>>, <<4>>}
              ELSE nonants'[a[1]][a[2]] = nonants[a[1]][a[2]]

C38_FixChecks == [][C38_FixChecksStep]_vars

\* _fix_nonants has just raised for the second-stage node of scenario 2, whose name
\* is not in the cache: the Vars of scenario 1 and the ROOT Var of scenario 2, free
\* before, are fixed, and the second-stage Var of scenario 2 is not
C38_Witness ==
    /\ nout.op = "fix" /\ nout.how = "missing" /\ nout.at[1] = <<2, 2>>
    /\ initial_fixed = {} /\ surrogate_vardatas = {} /\ nops = 1
    /\ nonants[1][1].fixed /\ nonants[1][2].fixed /\ nonants[2][1].fixed
    /\ ~nonants[2][2].fixed

====
